---- MODULE Spec2Model ----
(***************************************************************************)
(* A model of the rusterix runtime (BitWriter, BitReader, Fspec) and of    *)
(* the code that the generator emits for items, records and data blocks.   *)
(*                                                                         *)
(* A u64 is represented by the set of the positions of its 1 bits          *)
(* (position 0 is the least significant bit), so that 64-bit values can    *)
(* be written and read without leaving the range of the integers of the    *)
(* model checker.  Bytes (u8) are integers in 0..255.                      *)
(***************************************************************************)
EXTENDS Integers, Sequences, FiniteSets, TLC

VARIABLES
    \* --- bit-stream runtime (SpecBits)
    ops,        \* the write_bits calls made so far: <<value, count>>
    writer,     \* BitWriter { writer (the sink), buffer, bits_filled }
    flushed,    \* flush has been called after the last write
    flushes,    \* the number of flush calls made so far
    reader,     \* BitReader { reader (cursor position), buffer, bits_left }
    reads,      \* the values returned by the successive read_bits calls
    extra,      \* <<"None">>, or <<n, "Ok" or "Err">>: a read_bits(n) made after them
    \* --- FSPEC bitmap (SpecFspec)
    fspec,      \* Fspec { bytes } being built by set calls
    positions,  \* the <<byte, bit>> arguments of the set calls made so far
    fwire,      \* the bytes that Fspec::read is given
    fsource,    \* "none", "write" (fwire written by Fspec::write) or "stream"
    restored,   \* the result of Fspec::read: <<"Ok", bytes, consumed>> or <<"Err">>
    \* --- generated item types (SpecItem)
    item,       \* the layout of the item type under test
    original,   \* Some(the value that was encoded), or None
    buffer,     \* the bytes that decode is given
    isource,    \* "none", "encode" (buffer written by encode) or "stream"
    decoded,    \* the result of decode: <<"Ok", value, consumed, canon>> or <<"Err">>
    reencoded,  \* <<"Ok", bytes>> once the decoded value has been encoded again
    \* --- data blocks (SpecBlock, SpecFrame)
    blk,        \* Some(the records of the DataBlock that was encoded), or None
    bstream,    \* the bytes of the outer stream
    bsource,    \* "none", "encode", "panic" (encode panicked) or "stream"
    breader,    \* the BitReader over the outer stream
    results,    \* the results of the successive DataBlock::decode calls
    \* --- generated enums (SpecEnum)
    en,         \* the enum element the conversions are generated for
    u8val,      \* the u8 given to try_from
    converted,  \* <<"None">>, or <<"Ok", value>>: the result of try_from
    back,       \* <<"None">>, or <<"Ok", u8>>: the value converted back
    \* --- the generator (SpecGen)
    schema,     \* the layouts of the items of the category given to to_ir
    frns,       \* the FRN of each item of that category
    ir,         \* "none", "Ok" (to_ir returned) or "panic"
    lowered,    \* <<"None">>, <<"panic">> or <<"Ok", the field names of each struct>>
    record      \* the entries of the lowered record: the FSPEC position of each item

bitVars   == <<ops, writer, flushed, flushes, reader, reads, extra>>
fspecVars == <<fspec, positions, fwire, fsource, restored>>

itemVars  == <<item, original, buffer, isource, decoded, reencoded>>

blockVars == <<blk, bstream, bsource, breader, results>>

enumVars  == <<en, u8val, converted, back>>

genVars   == <<schema, frns, ir, lowered, record>>

vars == <<bitVars, fspecVars, itemVars, blockVars, enumVars, genVars>>

\* What the actions of one scenario leave alone.
notBits  == <<fspecVars, itemVars, blockVars, enumVars, genVars>>
notFspec == <<bitVars, itemVars, blockVars, enumVars, genVars>>
notItem  == <<bitVars, fspecVars, blockVars, enumVars, genVars>>
notBlock == <<bitVars, fspecVars, itemVars, enumVars, genVars>>
notEnum  == <<bitVars, fspecVars, itemVars, blockVars, genVars>>
notGen   == <<bitVars, fspecVars, itemVars, blockVars, enumVars>>

(***************************************************************************)
(* Integer helpers.                                                        *)
(***************************************************************************)
Pow2(n) == 2 ^ n

\* Width of the value argument of write_bits and of the result of read_bits.
WordBits == 64

\* `x as u64` for a non-negative integer x below 2^31.
ToU64(x) == { i \in 0..30 : (x \div Pow2(i)) % 2 = 1 }

\* `v as uW` for W <= 16, as an integer: the low w bits of the u64 v.
RECURSIVE AsUInt(_, _)
AsUInt(v, w) ==
    IF w = 0 THEN 0
    ELSE (IF (w - 1) \in v THEN Pow2(w - 1) ELSE 0) + AsUInt(v, w - 1)

\* The low n bits of a u64.
LowBits(v, n) == { i \in v : i < n }

\* (value << 1) | bit on a u64.
ShiftInBit(value, bit) ==
    { i + 1 : i \in { j \in value : j + 1 < WordBits } }
        \cup (IF bit = 1 THEN {0} ELSE {})

(***************************************************************************)
(* BitWriter (rusterix-core/src/bit_writer.rs).                            *)
(***************************************************************************)
BitWriterNew(sink) == [sink |-> sink, buffer |-> 0, bits_filled |-> 0]

\* One iteration of the loop of write_bits, for bit index i of value.
write_bit(W, value, i) ==
    LET bit    == IF i \in value THEN 1 ELSE 0
        buf    == ((W.buffer * 2) % 256) + bit
        filled == W.bits_filled + 1
    IN  IF filled = 8
        THEN [sink |-> Append(W.sink, buf), buffer |-> 0, bits_filled |-> 0]
        ELSE [sink |-> W.sink, buffer |-> buf, bits_filled |-> filled]

\* for i in (0..count).rev()
RECURSIVE write_loop(_, _, _)
write_loop(W, value, i) ==
    IF i = 0 THEN W
    ELSE LET W1 == write_bit(W, value, i - 1)
         IN  \* (the test always holds: it makes the evaluation of W1 eager)
             IF W1.bits_filled < 8 THEN write_loop(W1, value, i - 1) ELSE W1

write_bits(W, value, count) == write_loop(W, value, count)

flush_unshifted(W) ==
    IF W.bits_filled > 0
    THEN [sink |-> Append(W.sink, W.buffer), buffer |-> 0, bits_filled |-> 0]
    ELSE W

\* A flush that emits its buffer even when no bit is pending.
flush_always_emits(W) ==
    [sink |-> Append(W.sink, (W.buffer * Pow2(8 - W.bits_filled)) % 256),
     buffer |-> 0, bits_filled |-> 0]

flush(W) ==
    IF W.bits_filled > 0
    THEN [sink |-> Append(W.sink, (W.buffer * Pow2(8 - W.bits_filled)) % 256),
          buffer |-> 0, bits_filled |-> 0]
    ELSE W

\* impl Write for BitWriter: the bytes go straight to the underlying sink.
write_all(W, bytes) == [W EXCEPT !.sink = W.sink \o bytes]

(***************************************************************************)
(* BitReader (rusterix-core/src/bit_reader.rs).  The underlying reader is  *)
(* a cursor over the byte sequence src; pos counts the bytes taken.        *)
(***************************************************************************)
BitReaderNew(pos) == [pos |-> pos, buffer |-> 0, bits_left |-> 0]

RECURSIVE read_loop(_, _, _, _)
read_loop(R, src, value, k) ==
    IF k = 0 THEN [ok |-> TRUE, value |-> value, rd |-> R]
    ELSE IF R.bits_left = 0 /\ R.pos >= Len(src)
    THEN [ok |-> FALSE, value |-> {}, rd |-> R]
    ELSE LET R1 == IF R.bits_left = 0
                   THEN [pos |-> R.pos + 1, buffer |-> src[R.pos + 1], bits_left |-> 8]
                   ELSE R
             left == R1.bits_left - 1
             bit  == (R1.buffer \div Pow2(left)) % 2
             v1   == ShiftInBit(value, bit)
         IN  \* (the test always holds: it makes the evaluation of v1 eager)
             IF v1 \subseteq 0..(WordBits - 1)
             THEN read_loop([R1 EXCEPT !.bits_left = left], src, v1, k - 1)
             ELSE [ok |-> FALSE, value |-> v1, rd |-> R1]

\* A reader that fetches the next byte as soon as its buffer is used up.
read_bits_prefetching(R, src, count) ==
    LET Fetch(r) ==
            IF r.ok /\ r.rd.bits_left = 0 /\ r.rd.pos < Len(src)
            THEN [r EXCEPT !.rd = [pos |-> r.rd.pos + 1, buffer |-> src[r.rd.pos + 1],
                                   bits_left |-> 8]]
            ELSE r
    IN  Fetch(read_loop(R, src, {}, count))

read_bits(R, src, count) == read_loop(R, src, {}, count)

(***************************************************************************)
(* Fspec (rusterix-core/src/fspec.rs).  An Fspec is its byte vector.       *)
(***************************************************************************)
FspecNew == <<0>>

\* b | mask and b & mask != 0 for a mask with a single bit set.
TestBit(b, mask) == (b \div mask) % 2 = 1
OrBit(b, mask)   == IF TestBit(b, mask) THEN b ELSE b + mask

\* Fspec::read from the byte sequence src at position pos (loop over the
\* bytes until one has FX = 0).
RECURSIVE fspec_read_loop(_, _, _)
fspec_read_loop(src, pos, bytes) ==
    IF pos >= Len(src) THEN [ok |-> FALSE, bytes |-> bytes, pos |-> pos]
    ELSE LET b == src[pos + 1]
             bytes1 == Append(bytes, b)
         IN  IF b % 2 = 0
             THEN [ok |-> TRUE, bytes |-> bytes1, pos |-> pos + 1]
             ELSE fspec_read_loop(src, pos + 1, bytes1)

\* A read that takes one byte more than the chain when the stream has one.
fspec_read_one_more(src, pos) ==
    LET Over(r) == IF r.ok /\ r.pos < Len(src) THEN [r EXCEPT !.pos = r.pos + 1] ELSE r
    IN  Over(fspec_read_loop(src, pos, <<>>))

fspec_read(src, pos) == fspec_read_loop(src, pos, <<>>)

\* Fspec::write: the stored bytes, verbatim.
fspec_write(f) == f

is_set_masking_fx(f, byte, bit) ==
    IF byte + 1 > Len(f) THEN FALSE
    ELSE bit < 7 /\ TestBit(f[byte + 1], Pow2(7 - bit))

is_set(f, byte, bit) ==
    IF byte + 1 > Len(f) THEN FALSE
    ELSE TestBit(f[byte + 1], Pow2(7 - bit))

set_without_fx(f, byte, bit) ==
    LET grown == [i \in 1..(IF Len(f) <= byte THEN byte + 1 ELSE Len(f)) |->
                     IF i <= Len(f) THEN f[i] ELSE 0]
    IN  [i \in 1..Len(grown) |->
            IF i = byte + 1 THEN OrBit(grown[i], Pow2(7 - bit)) ELSE grown[i]]

set(f, byte, bit) ==
    LET \* while self.bytes.len() <= byte { self.bytes.push(0) }
        grown == [i \in 1..(IF Len(f) <= byte THEN byte + 1 ELSE Len(f)) |->
                     IF i <= Len(f) THEN f[i] ELSE 0]
        \* self.bytes[byte] |= 1 << (7 - bit)
        marked == [i \in 1..Len(grown) |->
                     IF i = byte + 1 THEN OrBit(grown[i], Pow2(7 - bit)) ELSE grown[i]]
    IN  \* for i in 0..byte { self.bytes[i] |= 0x01 }
        [i \in 1..Len(marked) |-> IF i <= byte THEN OrBit(marked[i], 1) ELSE marked[i]]

\* frn_to_fspec_position (generate/utils.rs)
frn_to_fspec_position(frn) == <<frn \div 7, frn % 7>>

(***************************************************************************)
(* The schema (transform/ir.rs): IRElement, IRPartGroup, IRSubItem and     *)
(* IRLayout as records of one shape each.                                  *)
(***************************************************************************)
Field(name, bits)        == [kind |-> "Field", name |-> name, bits |-> bits,
                             values |-> <<>>, content |-> <<>>]
Enum(name, bits, values) == [kind |-> "Enum", name |-> name, bits |-> bits,
                             values |-> values, content |-> <<>>]
Spare(bits)              == [kind |-> "Spare", name |-> "", bits |-> bits,
                             values |-> <<>>, content |-> <<>>]
\* EPB { content: Box<IRElement> }
EPB(content)             == [kind |-> "EPB", name |-> content.name, bits |-> content.bits,
                             values |-> content.values, content |-> <<content.kind>>]

PartGroup(index, elements) == [index |-> index, elements |-> elements]

Fixed(bytes, elements) ==
    [kind |-> "Fixed", bytes |-> bytes, elements |-> elements,
     part_groups |-> <<>>, count |-> 0, sub_items |-> <<>>]
Explicit(bytes, elements) ==
    [kind |-> "Explicit", bytes |-> bytes, elements |-> elements,
     part_groups |-> <<>>, count |-> 0, sub_items |-> <<>>]
Extended(bytes, part_groups) ==
    [kind |-> "Extended", bytes |-> bytes, elements |-> <<>>,
     part_groups |-> part_groups, count |-> 0, sub_items |-> <<>>]
Repetitive(bytes, count, elements) ==
    [kind |-> "Repetitive", bytes |-> bytes, elements |-> elements,
     part_groups |-> <<>>, count |-> count, sub_items |-> <<>>]
Compound(sub_items) ==
    [kind |-> "Compound", bytes |-> 0, elements |-> <<>>,
     part_groups |-> <<>>, count |-> 0, sub_items |-> sub_items]
SubItem(index, layout) == [index |-> index, layout |-> layout]

\* IRElement::bit_size
bit_size(e) == IF e.kind = "EPB" THEN 1 + e.bits ELSE e.bits

RECURSIVE SumBits(_)
SumBits(elements) ==
    IF elements = <<>> THEN 0
    ELSE bit_size(Head(elements)) + SumBits(Tail(elements))

\* A validation that checks the bit counts of Extended part groups only.
validate_flat_extended_only(l) ==
    l.kind = "Extended" =>
        /\ l.bytes = Len(l.part_groups)
        /\ \A i \in 1..Len(l.part_groups) : SumBits(l.part_groups[i].elements) = 7

\* IRLayout::validate for a layout that is not Compound (TRUE: the
\* assertions pass).
validate_flat(l) ==
    CASE l.kind \in {"Fixed", "Explicit", "Repetitive"} ->
            SumBits(l.elements) = l.bytes * 8
      [] l.kind = "Extended" ->
            /\ l.bytes = Len(l.part_groups)
            /\ \A i \in 1..Len(l.part_groups) : SumBits(l.part_groups[i].elements) = 7
      [] OTHER -> TRUE

\* A validation that does not look into the sub-items of a Compound.
validate_top_level_only(l) ==
    IF l.kind = "Compound" THEN TRUE ELSE validate_flat(l)

\* IRLayout::validate
validate(l) ==
    IF l.kind = "Compound"
    THEN \A i \in 1..Len(l.sub_items) : validate_flat(l.sub_items[i].layout)
    ELSE validate_flat(l)

\* rust_type_for_bits, as the width of the type (generate/utils.rs)
rust_type_for_bits(bits) ==
    IF bits <= 8 THEN 8 ELSE IF bits <= 16 THEN 16
    ELSE IF bits <= 32 THEN 32 ELSE IF bits <= 64 THEN 64 ELSE 128

(***************************************************************************)
(* Values of the generated types.  A struct is a function from its field   *)
(* names; Option<T> is <<>> (None) or <<x>> (Some(x)); a value of a        *)
(* generated enum is [variant |-> name, v |-> 0] for a declared variant    *)
(* and [variant |-> "Unknown", v |-> n] for Unknown(n).                    *)
(***************************************************************************)
None      == <<>>
Some(x)   == <<x>>
is_some(o) == o # <<>>

Variant(name) == [variant |-> name, v |-> 0]
Unknown(n)    == [variant |-> "Unknown", v |-> n]

\* impl From<Enum> for u8 (generate/enum_gen.rs)
RECURSIVE u8_from_arms(_, _, _)
u8_from_arms(values, val, i) ==
    IF i > Len(values) THEN val.v
    ELSE IF values[i][1] = val.variant THEN values[i][2]
    ELSE u8_from_arms(values, val, i + 1)

\* A conversion to u8 that loses the payload of Unknown.
u8_from_unknown_as_zero(e, val) ==
    IF val.variant = "Unknown" THEN 0 ELSE u8_from_arms(e.values, val, 1)

u8_from(e, val) ==
    IF val.variant = "Unknown" THEN val.v ELSE u8_from_arms(e.values, val, 1)

\* impl TryFrom<u8> for Enum: the first arm that matches, else Unknown(value)
RECURSIVE try_from_arms(_, _, _)
try_from_arms(values, value, i) ==
    IF i > Len(values) THEN Unknown(value)
    ELSE IF values[i][2] = value THEN Variant(values[i][1])
    ELSE try_from_arms(values, value, i + 1)

try_from(e, value) == try_from_arms(e.values, value, 1)

(***************************************************************************)
(* generate_element_encode (generate/encode_gen.rs): the statements that   *)
(* the generator emits for one element, run on the struct s.               *)
(***************************************************************************)
element_encode_absent_as_valid(e, s, W) ==
    CASE e.kind = "Field" -> write_bits(W, ToU64(s[e.name]), e.bits)
      [] e.kind = "Enum"  -> write_bits(W, ToU64(u8_from(e, s[e.name])), e.bits)
      [] e.kind = "Spare" -> write_bits(W, {}, e.bits)
      [] e.kind = "EPB"   ->
            IF is_some(s[e.name])
            THEN LET value == s[e.name][1]
                     raw   == IF e.content[1] = "Enum" THEN u8_from(e, value) ELSE value
                 IN  write_bits(write_bits(W, {0}, 1), ToU64(raw), e.bits)
            ELSE write_bits(write_bits(W, {0}, 1), {}, e.bits)

element_encode(e, s, W) ==
    CASE e.kind = "Field" -> write_bits(W, ToU64(s[e.name]), e.bits)
      [] e.kind = "Enum"  -> write_bits(W, ToU64(u8_from(e, s[e.name])), e.bits)
      [] e.kind = "Spare" -> write_bits(W, {}, e.bits)
      [] e.kind = "EPB"   ->
            IF is_some(s[e.name])
            THEN LET value == s[e.name][1]
                     raw   == IF e.content[1] = "Enum" THEN u8_from(e, value) ELSE value
                 IN  write_bits(write_bits(W, {0}, 1), ToU64(raw), e.bits)
            ELSE write_bits(write_bits(W, {}, 1), {}, e.bits)

\* #(#encode_fields)*
RECURSIVE elements_encode(_, _, _)
elements_encode(elements, s, W) ==
    IF elements = <<>> THEN W
    ELSE LET \* (the test always holds: it makes the evaluation of W1 eager)
             Rest(W1) == IF W1.bits_filled < 8
                         THEN elements_encode(Tail(elements), s, W1) ELSE W1
         IN  Rest(element_encode(Head(elements), s, W))

(***************************************************************************)
(* generate_element_decode (generate/decode_gen.rs).  A decode step        *)
(* returns [ok, rd, s, canon]: ok is FALSE when a read failed (the `?`),   *)
(* rd is the reader afterwards, s the struct with the field bound.  canon  *)
(* is a history value, not program state: it is FALSE once the decoder     *)
(* has discarded a value that the encoder would not have written (non-zero *)
(* spare bits, non-zero content under an EPB validity bit of 0, ...).      *)
(***************************************************************************)
Bind(s, name, val) == [n \in (DOMAIN s) \cup {name} |-> IF n = name THEN val ELSE s[n]]

Failed(R) == [ok |-> FALSE, rd |-> R, s |-> <<>>, canon |-> FALSE]

\* `reader.read_bits(bits)? as ty`, and the try_from(..).unwrap() of an enum
Converted(e, is_enum, value) ==
    IF is_enum THEN try_from(e, AsUInt(value, 8))
    ELSE AsUInt(value, rust_type_for_bits(e.bits))

\* A decode whose absent EPB leaves the content bits in the stream.
element_decode_absent_unskipped(e, s, R, src, canon) ==
    CASE e.kind \in {"Field", "Enum"} ->
            LET Got(r) ==
                    IF ~r.ok THEN Failed(r.rd)
                    ELSE [ok |-> TRUE, rd |-> r.rd, canon |-> canon,
                          s |-> Bind(s, e.name, Converted(e, e.kind = "Enum", r.value))]
            IN  Got(read_bits(R, src, e.bits))
      [] e.kind = "Spare" ->
            LET Got(r) ==
                    IF ~r.ok THEN Failed(r.rd)
                    ELSE [ok |-> TRUE, rd |-> r.rd, canon |-> canon /\ r.value = {}, s |-> s]
            IN  Got(read_bits(R, src, e.bits))
      [] e.kind = "EPB" ->
            LET Content(r) ==
                    IF ~r.ok THEN Failed(r.rd)
                    ELSE [ok |-> TRUE, rd |-> r.rd, canon |-> canon,
                          s |-> Bind(s, e.name,
                                     Some(Converted(e, e.content[1] = "Enum", r.value)))]
                Valid(v) ==
                    IF ~v.ok THEN Failed(v.rd)
                    ELSE IF v.value # {} THEN Content(read_bits(v.rd, src, e.bits))
                    ELSE [ok |-> TRUE, rd |-> v.rd, canon |-> canon,
                          s |-> Bind(s, e.name, None)]
            IN  Valid(read_bits(R, src, 1))

element_decode(e, s, R, src, canon) ==
    CASE e.kind \in {"Field", "Enum"} ->
            LET Got(r) ==
                    IF ~r.ok THEN Failed(r.rd)
                    ELSE [ok |-> TRUE, rd |-> r.rd, canon |-> canon,
                          s |-> Bind(s, e.name, Converted(e, e.kind = "Enum", r.value))]
            IN  Got(read_bits(R, src, e.bits))
      [] e.kind = "Spare" ->
            LET Got(r) ==
                    IF ~r.ok THEN Failed(r.rd)
                    ELSE [ok |-> TRUE, rd |-> r.rd, canon |-> canon /\ r.value = {}, s |-> s]
            IN  Got(read_bits(R, src, e.bits))
      [] e.kind = "EPB" ->
            LET Content(valid, r) ==
                    IF ~r.ok THEN Failed(r.rd)
                    ELSE IF valid
                    THEN [ok |-> TRUE, rd |-> r.rd, canon |-> canon,
                          s |-> Bind(s, e.name,
                                     Some(Converted(e, e.content[1] = "Enum", r.value)))]
                    ELSE [ok |-> TRUE, rd |-> r.rd, canon |-> canon /\ r.value = {},
                          s |-> Bind(s, e.name, None)]
                Valid(v) ==
                    IF ~v.ok THEN Failed(v.rd)
                    ELSE Content(v.value # {}, read_bits(v.rd, src, e.bits))
            IN  Valid(read_bits(R, src, 1))

\* #(#decode_fields)* Ok(Self { ... })
RECURSIVE elements_decode(_, _, _, _, _)
elements_decode(elements, s, R, src, canon) ==
    IF elements = <<>> THEN [ok |-> TRUE, rd |-> R, s |-> s, canon |-> canon]
    ELSE LET Rest(d) == IF ~d.ok THEN d
                        ELSE elements_decode(Tail(elements), d.s, d.rd, src, d.canon)
         IN  Rest(element_decode(Head(elements), s, R, src, canon))

(***************************************************************************)
(* The Encode implementations that the generator emits for the items       *)
(* (generate/encode_gen.rs).  The value of a Fixed or Explicit item is its *)
(* struct; of an Extended item the sequence <<part0, part1, ...>> with     *)
(* part0 a struct and the others Option<struct>; of a Repetitive item      *)
(* [items |-> <<struct, ...>>]; of a Compound item the sequence of its     *)
(* Option<sub-item>, in declaration order.                                 *)
(***************************************************************************)
\* generate_simple_encode
simple_encode(l, v, W) ==
    elements_encode(l.elements, v,
        IF l.kind = "Explicit" THEN write_bits(W, ToU64(l.bytes + 1), 8) ELSE W)

Bool(b) == IF b THEN {0} ELSE {}

\* A part that always ends with FX = 0.
part_encode_without_fx(elements, s, fx, W) ==
    write_bits(elements_encode(elements, s, W), {}, 1)

\* One part of an Extended item: its elements, then its FX bit.
part_encode(elements, s, fx, W) == write_bits(elements_encode(elements, s, W), Bool(fx), 1)

\* generate_extended_encode: main_encode_body, for the parts i..n (1-based)
RECURSIVE extended_encode_from(_, _, _, _)
extended_encode_from(groups, v, i, W) ==
    IF i > Len(groups) THEN W
    ELSE LET \* for the last part the generator emits write_bits(0, 1)
             fx == i < Len(groups) /\ is_some(v[i + 1])
             \* (the test always holds: it makes the evaluation of W1 eager)
             Rest(W1) == IF W1.bits_filled < 8
                         THEN extended_encode_from(groups, v, i + 1, W1) ELSE W1
         IN  IF i = 1 \/ is_some(v[i])
             THEN Rest(part_encode(groups[i].elements, IF i = 1 THEN v[1] ELSE v[i][1], fx, W))
             ELSE Rest(W)

extended_encode(l, v, W) == extended_encode_from(l.part_groups, v, 1, W)

\* generate_repetitive_encode: for item in &self.items { item.encode(writer)? }
RECURSIVE repetitive_encode_from(_, _, _, _)
repetitive_encode_from(l, items, i, W) ==
    IF i > Len(items) THEN W
    ELSE LET Rest(W1) == IF W1.bits_filled < 8
                         THEN repetitive_encode_from(l, items, i + 1, W1) ELSE W1
         IN  Rest(elements_encode(l.elements, items[i], W))

repetitive_encode(l, v, W) == repetitive_encode_from(l, v.items, 1, W)

\* The Encode impl of an item or sub-item whose layout is not Compound.
flat_encode(l, v, W) ==
    CASE l.kind \in {"Fixed", "Explicit"} -> simple_encode(l, v, W)
      [] l.kind = "Extended"              -> extended_encode(l, v, W)
      [] l.kind = "Repetitive"            -> repetitive_encode(l, v, W)

\* A setup that marks every declared position, present or not.
RECURSIVE fspec_setup_marking_all(_, _, _, _)
fspec_setup_marking_all(indexes, present, i, f) ==
    IF i > Len(indexes) THEN f
    ELSE LET Rest(f1)  == IF Len(f1) > 0
                          THEN fspec_setup_marking_all(indexes, present, i + 1, f1) ELSE f1
             Mark(pos) == set(f, pos[1], pos[2])
         IN  Rest(Mark(frn_to_fspec_position(indexes[i])))

\* fspec_setup: if self.subN.is_some() { fspec.set(byte, bit) }, in order
RECURSIVE fspec_setup(_, _, _, _)
fspec_setup(indexes, present, i, f) ==
    IF i > Len(indexes) THEN f
    ELSE LET Mark(pos) == IF present[i] THEN set(f, pos[1], pos[2]) ELSE f
             Rest(f1)  == IF Len(f1) > 0 THEN fspec_setup(indexes, present, i + 1, f1) ELSE f1
         IN  Rest(Mark(frn_to_fspec_position(indexes[i])))

\* sub_encodes: if let Some(ref sub_data) = self.subN { sub_data.encode(..) }
RECURSIVE sub_encodes(_, _, _, _)
sub_encodes(sub_items, v, i, W) ==
    IF i > Len(sub_items) THEN W
    ELSE LET Rest(W1) == IF W1.bits_filled < 8
                         THEN sub_encodes(sub_items, v, i + 1, W1) ELSE W1
         IN  IF is_some(v[i]) THEN Rest(flat_encode(sub_items[i].layout, v[i][1], W))
             ELSE Rest(W)

\* The FSPEC positions of a list of sub-items (or of record entries), and
\* which of them a value holds.
Indexes(entries) == [i \in 1..Len(entries) |-> entries[i].index]
Present(v)       == [i \in 1..Len(v) |-> is_some(v[i])]

\* generate_compound_encode.  The writer it is given is used as a byte sink:
\* the FSPEC goes to it through impl Write, then a BitWriter of its own
\* wraps it for the sub-items and is flushed.
compound_encode(l, v, W) ==
    LET Subs(inner) == [W EXCEPT !.sink = flush(sub_encodes(l.sub_items, v, 1, inner)).sink]
    IN  Subs(BitWriterNew(
            write_all(W, fspec_write(fspec_setup(Indexes(l.sub_items), Present(v), 1, FspecNew))).sink))

item_encode(l, v, W) ==
    IF l.kind = "Compound" THEN compound_encode(l, v, W) ELSE flat_encode(l, v, W)

(***************************************************************************)
(* The Decode implementations (generate/decode_gen.rs).  They return       *)
(* [ok, rd, value, canon].                                                 *)
(***************************************************************************)
DecodeFailed(R) == [ok |-> FALSE, rd |-> R, value |-> <<>>, canon |-> FALSE]

\* Ok(Self { ... }) or the error of the `?` that failed
Decoded(d) ==
    IF d.ok THEN [ok |-> TRUE, rd |-> d.rd, value |-> d.s, canon |-> d.canon]
    ELSE DecodeFailed(d.rd)

\* generate_simple_decode
simple_decode(l, R, src) ==
    IF l.kind = "Explicit"
    THEN LET \* let _len = reader.read_bits(8)?
             Body(len) ==
                 IF ~len.ok THEN DecodeFailed(len.rd)
                 ELSE Decoded(elements_decode(l.elements, <<>>, len.rd, src,
                                              len.value = ToU64(l.bytes + 1)))
         IN  Body(read_bits(R, src, 8))
    ELSE Decoded(elements_decode(l.elements, <<>>, R, src, TRUE))

\* A decode that reads every declared part, whatever the FX bits say.
RECURSIVE extended_decode_ignoring_fx(_, _, _, _, _, _, _)
extended_decode_ignoring_fx(groups, i, fx, parts, R, src, canon) ==
    IF i > Len(groups)
    THEN [ok |-> TRUE, rd |-> R, value |-> parts, canon |-> canon /\ ~fx]
    ELSE LET Fx(d, b) ==
                 IF ~b.ok THEN DecodeFailed(b.rd)
                 ELSE extended_decode_ignoring_fx(groups, i + 1, b.value # {},
                          Append(parts, IF i = 1 THEN d.s ELSE Some(d.s)),
                          b.rd, src, d.canon)
             Part(d) == IF ~d.ok THEN DecodeFailed(d.rd)
                        ELSE Fx(d, read_bits(d.rd, src, 1))
         IN  Part(elements_decode(groups[i].elements, <<>>, R, src, canon))

\* generate_extended_decode: main_decode_body for the parts i..n (1-based),
\* with the value of fx and the parts decoded so far.
RECURSIVE extended_decode_from(_, _, _, _, _, _, _)
extended_decode_from(groups, i, fx, parts, R, src, canon) ==
    IF i > Len(groups)
    THEN [ok |-> TRUE, rd |-> R, value |-> parts, canon |-> canon /\ ~fx]
    ELSE IF i > 1 /\ ~fx
    THEN extended_decode_from(groups, i + 1, fx, Append(parts, None), R, src, canon)
    ELSE LET Fx(d, b) ==
                 IF ~b.ok THEN DecodeFailed(b.rd)
                 ELSE extended_decode_from(groups, i + 1, b.value # {},
                          Append(parts, IF i = 1 THEN d.s ELSE Some(d.s)),
                          b.rd, src, d.canon)
             Part(d) == IF ~d.ok THEN DecodeFailed(d.rd)
                        ELSE Fx(d, read_bits(d.rd, src, 1))
         IN  Part(elements_decode(groups[i].elements, <<>>, R, src, canon))

extended_decode(l, R, src) ==
    extended_decode_from(l.part_groups, 1, FALSE, <<>>, R, src, TRUE)

\* generate_repetitive_decode: for _ in 0..count { items.push(decode(reader)?) }
RECURSIVE repetitive_decode_from(_, _, _, _, _, _)
repetitive_decode_from(l, i, items, R, src, canon) ==
    IF i > l.count
    THEN [ok |-> TRUE, rd |-> R, value |-> [items |-> items], canon |-> canon]
    ELSE LET Rest(d) ==
                 IF ~d.ok THEN DecodeFailed(d.rd)
                 ELSE repetitive_decode_from(l, i + 1, Append(items, d.s), d.rd, src, d.canon)
         IN  Rest(elements_decode(l.elements, <<>>, R, src, canon))

repetitive_decode(l, R, src) == repetitive_decode_from(l, 1, <<>>, R, src, TRUE)

flat_decode(l, R, src) ==
    CASE l.kind \in {"Fixed", "Explicit"} -> simple_decode(l, R, src)
      [] l.kind = "Extended"              -> extended_decode(l, R, src)
      [] l.kind = "Repetitive"            -> repetitive_decode(l, R, src)

\* sub_decodes: let subN = if fspec.is_set(byte, bit) { Some(decode(..)?) } else { None }
RECURSIVE sub_decodes(_, _, _, _, _, _, _)
sub_decodes(sub_items, f, i, subs, R, src, canon) ==
    IF i > Len(sub_items)
    THEN [ok |-> TRUE, rd |-> R, value |-> subs, canon |-> canon]
    ELSE LET Rest(d) ==
                 IF ~d.ok THEN DecodeFailed(d.rd)
                 ELSE sub_decodes(sub_items, f, i + 1, Append(subs, Some(d.value)),
                                  d.rd, src, canon /\ d.canon)
             At(pos) ==
                 IF is_set(f, pos[1], pos[2])
                 THEN Rest(flat_decode(sub_items[i].layout, R, src))
                 ELSE sub_decodes(sub_items, f, i + 1, Append(subs, None), R, src, canon)
         IN  At(frn_to_fspec_position(sub_items[i].index))

\* History only: the FSPEC f is the one that encode builds for the entries
\* it marks present: every presence bit it has set belongs to a declared
\* index, and its last byte, unless it is the only one, has a presence bit.
FspecIsMinimal(f, indexes) ==
    /\ \A b \in 0..(Len(f) - 1), k \in 0..6 :
          is_set(f, b, k) =>
              \E i \in 1..Len(indexes) : frn_to_fspec_position(indexes[i]) = <<b, k>>
    /\ Len(f) > 1 => f[Len(f)] # 0

\* generate_compound_decode.  The reader it is given is used as a byte
\* source: Fspec::read takes its bytes through impl Read, then a BitReader
\* of its own wraps it for the sub-items.
compound_decode(l, R, src) ==
    LET Done(d) == [ok |-> d.ok, rd |-> [R EXCEPT !.pos = d.rd.pos],
                    value |-> d.value, canon |-> d.canon]
        Subs(f) ==
            IF ~f.ok THEN DecodeFailed([R EXCEPT !.pos = f.pos])
            ELSE Done(sub_decodes(l.sub_items, f.bytes, 1, <<>>, BitReaderNew(f.pos), src,
                                  FspecIsMinimal(f.bytes, Indexes(l.sub_items))))
    IN  Subs(fspec_read(src, R.pos))

item_decode(l, R, src) ==
    IF l.kind = "Compound" THEN compound_decode(l, R, src) ELSE flat_decode(l, R, src)

(***************************************************************************)
(* The record of a category (generate/record_gen.rs).  Its entries are     *)
(* the category's items with their FRN; a record value is the sequence of  *)
(* its Option<item>, in the order of the entries.                          *)
(***************************************************************************)
\* encode_items: if let Some(ref item) = self.itemN { item.encode(writer)? }
RECURSIVE encode_items(_, _, _, _)
encode_items(entries, v, i, W) ==
    IF i > Len(entries) THEN W
    ELSE LET Rest(W1) == IF W1.bits_filled < 8
                         THEN encode_items(entries, v, i + 1, W1) ELSE W1
         IN  IF is_some(v[i]) THEN Rest(item_encode(entries[i].layout, v[i][1], W))
             ELSE Rest(W)

\* generate_record_encode: the FSPEC goes to the writer through impl Write,
\* the items through write_bits.
record_encode(entries, v, W) ==
    encode_items(entries, v, 1,
        write_all(W, fspec_write(fspec_setup(Indexes(entries), Present(v), 1, FspecNew))))

\* decode_fields: itemN: if fspec.is_set(byte, bit) { Some(decode(reader)?) } else { None }
RECURSIVE decode_fields(_, _, _, _, _, _)
decode_fields(entries, f, i, items, R, src) ==
    IF i > Len(entries)
    THEN [ok |-> TRUE, rd |-> R, value |-> items, canon |-> TRUE]
    ELSE LET Rest(d) ==
                 IF ~d.ok THEN DecodeFailed(d.rd)
                 ELSE decode_fields(entries, f, i + 1, Append(items, Some(d.value)), d.rd, src)
             At(pos) ==
                 IF is_set(f, pos[1], pos[2])
                 THEN Rest(item_decode(entries[i].layout, R, src))
                 ELSE decode_fields(entries, f, i + 1, Append(items, None), R, src)
         IN  At(frn_to_fspec_position(entries[i].index))

\* generate_record_decode: Fspec::read takes its bytes from the underlying
\* reader through impl Read.
record_decode(entries, R, src) ==
    LET Fields(f) ==
            IF ~f.ok THEN DecodeFailed([R EXCEPT !.pos = f.pos])
            ELSE decode_fields(entries, f.bytes, 1, <<>>, [R EXCEPT !.pos = f.pos], src)
    IN  Fields(fspec_read(src, R.pos))

(***************************************************************************)
(* DataBlock (generate/datablock_gen.rs) of the category whose record has  *)
(* the entries CatRecord.  The loops over the records and over the payload *)
(* bytes are evaluated by halves, which keeps the evaluation shallow for   *)
(* the blocks of more than 65532 payload bytes.                            *)
(***************************************************************************)
CATEGORY == 1

\* The number of values of a u16: `as u16` and a wrapping u16 addition
\* reduce modulo it.
U16 == 65536

CatRecord == << SubItem(0, Fixed(1, << Field("u", 1), Spare(7) >>)),
                SubItem(7, Fixed(1, << Field("w", 1), Spare(7) >>)) >>

\* for record in &self.records { record.encode(&mut record_writer)? }
RECURSIVE records_encode(_, _, _, _)
records_encode(records, lo, hi, W) ==
    IF lo > hi THEN W
    ELSE IF lo = hi THEN record_encode(CatRecord, records[lo], W)
    ELSE LET Rest(mid, W1) == IF W1.bits_filled < 8
                              THEN records_encode(records, mid + 1, hi, W1) ELSE W1
         IN  Rest((lo + hi) \div 2, records_encode(records, lo, (lo + hi) \div 2, W))

\* for &byte in &record_buf { writer.write_bits(byte as u64, 8)? }
RECURSIVE payload_write(_, _, _, _)
payload_write(record_buf, lo, hi, W) ==
    IF lo > hi THEN W
    ELSE IF lo = hi THEN write_bits(W, ToU64(record_buf[lo]), 8)
    ELSE LET Rest(mid, W1) == IF W1.bits_filled < 8
                              THEN payload_write(record_buf, mid + 1, hi, W1) ELSE W1
         IN  Rest((lo + hi) \div 2, payload_write(record_buf, lo, (lo + hi) \div 2, W))

\* impl Encode for DataBlock.  `3 + record_buf.len() as u16` is a u16
\* addition: when it overflows, a build with overflow checks panics and a
\* build without them wraps.  Returns [panic, W].
block_encode(records, overflow_checks, W) ==
    LET Emit(record_buf, total_len) ==
            IF total_len >= U16 /\ overflow_checks THEN [panic |-> TRUE, W |-> W]
            ELSE [panic |-> FALSE,
                  W |-> payload_write(record_buf, 1, Len(record_buf),
                            write_bits(write_bits(W, ToU64(CATEGORY), 8),
                                       ToU64(total_len % U16), 16))]
        Buffered(record_buf) == Emit(record_buf, 3 + (Len(record_buf) % U16))
    IN  Buffered(flush(records_encode(records, 1, Len(records), BitWriterNew(<<>>))).sink)

\* for byte in payload.iter_mut() { *byte = reader.read_bits(8)? as u8 }
\* for the bytes lo..hi of the payload.  Returns [ok, rd, bytes].
RECURSIVE payload_read(_, _, _, _)
payload_read(R, src, lo, hi) ==
    IF lo > hi THEN [ok |-> TRUE, rd |-> R, bytes |-> <<>>]
    ELSE IF lo = hi
    THEN LET One(r) == [ok |-> r.ok, rd |-> r.rd,
                        bytes |-> IF r.ok THEN <<AsUInt(r.value, 8)>> ELSE <<>>]
         IN  One(read_bits(R, src, 8))
    ELSE LET Second(a, b) == [ok |-> b.ok, rd |-> b.rd, bytes |-> a.bytes \o b.bytes]
             First(mid, a) == IF ~a.ok THEN a
                              ELSE Second(a, payload_read(a.rd, src, mid + 1, hi))
         IN  First((lo + hi) \div 2, payload_read(R, src, lo, (lo + hi) \div 2))

\* A record loop that returns the records decoded so far when a record
\* fails.
RECURSIVE records_decode_partial(_, _, _)
records_decode_partial(payload, pos, records) ==
    IF pos >= Len(payload) THEN [ok |-> TRUE, records |-> records]
    ELSE LET Next(d) == IF ~d.ok THEN [ok |-> TRUE, records |-> records]
                        ELSE records_decode_partial(payload, d.rd.pos, Append(records, d.value))
         IN  Next(record_decode(CatRecord, BitReaderNew(pos), payload))

\* A record loop whose first iteration leaves the cursor where it was.
RECURSIVE records_decode_stalling(_, _, _)
records_decode_stalling(payload, pos, records) ==
    IF pos >= Len(payload) THEN [ok |-> TRUE, records |-> records]
    ELSE LET Next(d) == IF ~d.ok THEN [ok |-> FALSE, records |-> <<>>]
                        ELSE records_decode_stalling(payload,
                                 IF records = <<>> THEN pos ELSE d.rd.pos,
                                 Append(records, d.value))
         IN  Next(record_decode(CatRecord, BitReaderNew(pos), payload))

\* while cursor.position() < total { records.push(Record::decode(&mut
\* BitReader::new(&mut cursor))?) }, with the cursor at pos.
RECURSIVE records_decode(_, _, _)
records_decode(payload, pos, records) ==
    IF pos >= Len(payload) THEN [ok |-> TRUE, records |-> records]
    ELSE LET Next(d) == IF ~d.ok THEN [ok |-> FALSE, records |-> <<>>]
                        ELSE records_decode(payload, d.rd.pos, Append(records, d.value))
         IN  Next(record_decode(CatRecord, BitReaderNew(pos), payload))

\* An Err(..) of DataBlock::decode, which returns no records.
BlockErr(err, R) == [ok |-> FALSE, err |-> err, rd |-> R, records |-> <<>>]

\* A decode that takes all that is left of the outer stream as the payload,
\* whatever LEN says.
block_decode_unframed(R, src) ==
    LET Records(rd, r) ==
            IF r.ok THEN [ok |-> TRUE, err |-> "", rd |-> rd, records |-> r.records]
            ELSE BlockErr("Io", rd)
        Payload(p) ==
            IF ~p.ok THEN BlockErr("Io", p.rd)
            ELSE Records(p.rd, records_decode(p.bytes, 0, <<>>))
        Length(len) ==
            IF ~len.ok THEN BlockErr("Io", len.rd)
            ELSE IF AsUInt(len.value, 16) < 3
            THEN BlockErr("data block length too small", len.rd)
            ELSE Payload(payload_read(len.rd, src, 1, Len(src) - len.rd.pos))
        Cat(cat) ==
            IF ~cat.ok THEN BlockErr("Io", cat.rd)
            ELSE IF AsUInt(cat.value, 8) # CATEGORY THEN BlockErr("category mismatch", cat.rd)
            ELSE Length(read_bits(cat.rd, src, 16))
    IN  Cat(read_bits(R, src, 8))

\* A decode that reads CAT and LEN, and only then looks at them: at LEN
\* first, then at CAT.
block_decode_header_first(R, src) ==
    LET Records(rd, r) ==
            IF r.ok THEN [ok |-> TRUE, err |-> "", rd |-> rd, records |-> r.records]
            ELSE BlockErr("Io", rd)
        Payload(p) ==
            IF ~p.ok THEN BlockErr("Io", p.rd)
            ELSE Records(p.rd, records_decode(p.bytes, 0, <<>>))
        Length(cat, len) ==
            IF ~len.ok THEN BlockErr("Io", len.rd)
            ELSE IF AsUInt(len.value, 16) < 3
            THEN BlockErr("data block length too small", len.rd)
            ELSE IF AsUInt(cat.value, 8) # CATEGORY THEN BlockErr("category mismatch", len.rd)
            ELSE Payload(payload_read(len.rd, src, 1, AsUInt(len.value, 16) - 3))
        Cat(cat) ==
            IF ~cat.ok THEN BlockErr("Io", cat.rd)
            ELSE Length(cat, read_bits(cat.rd, src, 16))
    IN  Cat(read_bits(R, src, 8))

\* impl Decode for DataBlock.  Returns [ok, err, rd, records].
block_decode(R, src) ==
    LET Records(rd, r) ==
            IF r.ok THEN [ok |-> TRUE, err |-> "", rd |-> rd, records |-> r.records]
            ELSE BlockErr("Io", rd)
        Payload(p) ==
            IF ~p.ok THEN BlockErr("Io", p.rd)
            ELSE Records(p.rd, records_decode(p.bytes, 0, <<>>))
        Length(len) ==
            IF ~len.ok THEN BlockErr("Io", len.rd)
            ELSE IF AsUInt(len.value, 16) < 3
            THEN BlockErr("data block length too small", len.rd)
            ELSE Payload(payload_read(len.rd, src, 1, AsUInt(len.value, 16) - 3))
        Cat(cat) ==
            IF ~cat.ok THEN BlockErr("Io", cat.rd)
            ELSE IF AsUInt(cat.value, 8) # CATEGORY THEN BlockErr("category mismatch", cat.rd)
            ELSE Length(read_bits(cat.rd, src, 16))
    IN  Cat(read_bits(R, src, 8))

(***************************************************************************)
(* The bit-stream scenario: write_bits calls on a fresh BitWriter, flush,  *)
(* then read_bits calls with the same counts on a fresh BitReader over     *)
(* the bytes produced.                                                     *)
(***************************************************************************)
MaxOps == 2
MaxFlushes == 2

\* The bit counts and the values that the calls are made with.
Counts == {0, 1, 3, 8, 13, 64}
Words  == { {}, 0..63, {0, 8, 63}, {1, 2, 5, 12} }

\* A fresh BitWriter over an empty sink, a fresh BitReader, a fresh Fspec.
BitsInit ==
    /\ ops = <<>>
    /\ writer = BitWriterNew(<<>>)
    /\ flushed = FALSE
    /\ flushes = 0
    /\ reader = BitReaderNew(0)
    /\ reads = <<>>
    /\ extra = <<"None">>
    /\ fspec = FspecNew
    /\ positions = {}
    /\ fwire = <<>>
    /\ fsource = "none"
    /\ restored = <<"None">>
    /\ item = <<>>
    /\ original = None
    /\ buffer = <<>>
    /\ isource = "none"
    /\ decoded = <<"None">>
    /\ reencoded = <<"None">>
    /\ blk = None
    /\ bstream = <<>>
    /\ bsource = "none"
    /\ breader = BitReaderNew(0)
    /\ results = <<>>
    /\ en = <<>>
    /\ u8val = 0
    /\ converted = <<"None">>
    /\ back = <<"None">>
    /\ schema = <<>>
    /\ frns = <<>>
    /\ record = <<>>
    /\ ir = "none"
    /\ lowered = <<"None">>

WriteBits(v, n) ==
    /\ ~flushed
    /\ Len(ops) < MaxOps
    /\ writer' = write_bits(writer, v, n)
    /\ ops' = Append(ops, <<v, n>>)
    /\ UNCHANGED <<flushed, flushes, reader, reads, extra, notBits>>

\* writer.flush(), also when nothing was written since the last flush
Flush ==
    /\ flushes < MaxFlushes
    /\ writer' = flush(writer)
    /\ flushed' = TRUE
    /\ flushes' = flushes + 1
    /\ UNCHANGED <<ops, reader, reads, extra, notBits>>

ReadBits ==
    /\ flushed
    /\ Len(reads) < Len(ops)
    /\ LET r == read_bits(reader, writer.sink, ops[Len(reads) + 1][2])
       IN  /\ reader' = r.rd
           /\ reads' = Append(reads, IF r.ok THEN <<"Ok", r.value>> ELSE <<"Err", {}>>)
    /\ UNCHANGED <<ops, writer, flushed, flushes, extra, notBits>>

\* One more read_bits(n) on the same reader, once every written value has
\* been read back: it finds the padding bits of the last byte, or the end
\* of the source.
ReadExtra(n) ==
    /\ flushed
    /\ Len(reads) = Len(ops)
    /\ extra = <<"None">>
    /\ LET r == read_bits(reader, writer.sink, n)
       IN  /\ reader' = r.rd
           /\ extra' = <<n, IF r.ok THEN "Ok" ELSE "Err">>
    /\ UNCHANGED <<ops, writer, flushed, flushes, reads, notBits>>

BitsNext ==
    \/ \E v \in Words, n \in Counts : WriteBits(v, n)
    \/ Flush
    \/ ReadBits
    \/ \E n \in Counts : ReadExtra(n)

SpecBits == BitsInit /\ [][BitsNext]_vars

(***************************************************************************)
(* C4: after write_bits(v_i, n_i) calls and flush, the successive          *)
(* read_bits(n_i) calls on a fresh reader over the bytes produced return   *)
(* the low n_i bits of v_i, in the same order.                             *)
(***************************************************************************)
C4_BitRoundTrip ==
    \A i \in 1..Len(reads) : reads[i] = <<"Ok", LowBits(ops[i][1], ops[i][2])>>

C4_Witness ==
    /\ Len(ops) = 2
    /\ Len(reads) = 2
    /\ ops[1] = <<{0, 8, 63}, 13>>
    /\ ops[2] = <<0..63, 64>>
    /\ reads[2] = <<"Ok", 0..63>>

(***************************************************************************)
(* The FSPEC scenario: set calls on a fresh Fspec, write, and read of the  *)
(* written bytes; or read of bytes that arrive from a stream.              *)
(***************************************************************************)
MaxFspecByte == 2
MaxSets == 3

\* The bytes of the streams that Fspec::read is given.
FspecStreamBytes == {0, 1, 2, 128, 129}

RECURSIVE SeqsUpTo(_, _)
SeqsUpTo(S, n) ==
    IF n = 0 THEN {<<>>}
    ELSE LET shorter == SeqsUpTo(S, n - 1)
         IN  shorter \cup { Append(q, x) : q \in { r \in shorter : Len(r) = n - 1 }, x \in S }

FspecSet(b, k) ==
    /\ fsource = "none"
    /\ Cardinality(positions) < MaxSets
    /\ <<b, k>> \notin positions
    /\ fspec' = set(fspec, b, k)
    /\ positions' = positions \cup {<<b, k>>}
    /\ UNCHANGED <<fwire, fsource, restored, notFspec>>

FspecWrite ==
    /\ fsource = "none"
    /\ fwire' = fspec_write(fspec)
    /\ fsource' = "write"
    /\ UNCHANGED <<fspec, positions, restored, notFspec>>

FspecFeed(s) ==
    /\ fsource = "none"
    /\ positions = {}
    /\ fwire' = s
    /\ fsource' = "stream"
    /\ UNCHANGED <<fspec, positions, restored, notFspec>>

FspecRead ==
    /\ fsource # "none"
    /\ restored = <<"None">>
    /\ LET r == fspec_read(fwire, 0)
       IN  restored' = IF r.ok THEN <<"Ok", r.bytes, r.pos>> ELSE <<"Err">>
    /\ UNCHANGED <<fspec, positions, fwire, fsource, notFspec>>

FspecNext ==
    \/ \E b \in 0..MaxFspecByte, k \in 0..7 : FspecSet(b, k)
    \/ FspecWrite
    \/ \E s \in SeqsUpTo(FspecStreamBytes, MaxFspecByte + 1) : FspecFeed(s)
    \/ FspecRead

\* A fresh Fspec.
FspecInit ==
    /\ fspec = FspecNew
    /\ positions = {}
    /\ fwire = <<>>
    /\ fsource = "none"
    /\ restored = <<"None">>
    /\ ops = <<>>
    /\ writer = BitWriterNew(<<>>)
    /\ flushed = FALSE
    /\ flushes = 0
    /\ reader = BitReaderNew(0)
    /\ reads = <<>>
    /\ extra = <<"None">>
    /\ item = <<>>
    /\ original = None
    /\ buffer = <<>>
    /\ isource = "none"
    /\ decoded = <<"None">>
    /\ reencoded = <<"None">>
    /\ blk = None
    /\ bstream = <<>>
    /\ bsource = "none"
    /\ breader = BitReaderNew(0)
    /\ results = <<>>
    /\ en = <<>>
    /\ u8val = 0
    /\ converted = <<"None">>
    /\ back = <<"None">>
    /\ schema = <<>>
    /\ frns = <<>>
    /\ record = <<>>
    /\ ir = "none"
    /\ lowered = <<"None">>

SpecFspec == FspecInit /\ [][FspecNext]_vars

\* Every set call so far used a presence position (bit index 0..6).
PresenceBitsOnly == \A p \in positions : p[2] <= 6

(***************************************************************************)
(* C5 (as amended): for a set S of positions with bit in 0..6, set on a    *)
(* fresh Fspec for the positions of S, then write, then read, yields an    *)
(* Fspec for which is_set(b, k), k in 0..6, is true exactly for the        *)
(* (b, k) in S.                                                            *)
(***************************************************************************)
C5_FspecRoundTrip ==
    (fsource = "write" /\ restored # <<"None">> /\ PresenceBitsOnly) =>
        /\ restored[1] = "Ok"
        /\ \A b \in 0..(MaxFspecByte + 1), k \in 0..6 :
              is_set(restored[2], b, k) <=> (<<b, k>> \in positions)

\* C5 as stated: positions with bit in 0..7, set and queried.
C5_Original ==
    (fsource = "write" /\ restored # <<"None">>) =>
        /\ restored[1] = "Ok"
        /\ \A b \in 0..(MaxFspecByte + 1), k \in 0..7 :
              is_set(restored[2], b, k) <=> (<<b, k>> \in positions)

C5_Witness ==
    /\ fsource = "write"
    /\ positions = {<<0, 0>>, <<1, 0>>, <<2, 3>>}
    /\ restored = <<"Ok", <<129, 129, 16>>, 3>>

\* FX = 1 on every byte but the last, FX = 0 on the last.
FxChain(bytes) ==
    /\ Len(bytes) >= 1
    /\ \A i \in 1..Len(bytes) : (bytes[i] % 2 = 1) <=> (i < Len(bytes))

(***************************************************************************)
(* C6 (as amended): in every FSPEC serialized by Fspec::write after        *)
(* Fspec::new and set calls with bit index in 0..6, bytes 0..m-2 have      *)
(* FX = 1 and byte m-1 has FX = 0.                                         *)
(***************************************************************************)
C6_SerializedFxChain ==
    (fsource = "write" /\ PresenceBitsOnly) => FxChain(fwire)

\* C6 as stated: after any sequence of set calls.
C6_Original ==
    (fsource = "write") => FxChain(fwire)

C6_Witness ==
    /\ fsource = "write"
    /\ positions = {<<2, 0>>}
    /\ fwire = <<1, 1, 128>>

(***************************************************************************)
(* C7 (as amended): is_set(b, 7) reports the FX bit of byte b.  For an     *)
(* Fspec produced by read, or built by set calls with bit index in 0..6,   *)
(* is_set(b, 7) is true exactly for the bytes that another byte follows,   *)
(* and false for the last byte and for an out-of-range b.                  *)
(***************************************************************************)
C7_FxReported ==
    /\ PresenceBitsOnly =>
          \A b \in 0..(MaxFspecByte + 1) : is_set(fspec, b, 7) <=> (b + 1 < Len(fspec))
    /\ (restored # <<"None">> /\ restored[1] = "Ok") =>
          \A b \in 0..(MaxFspecByte + 1) :
              is_set(restored[2], b, 7) <=> (b + 1 < Len(restored[2]))

\* C7 as stated: is_set(b, 7) is false for every reachable Fspec and every b.
C7_Original ==
    /\ \A b \in 0..(MaxFspecByte + 1) : ~is_set(fspec, b, 7)
    /\ (restored # <<"None">> /\ restored[1] = "Ok") =>
          \A b \in 0..(MaxFspecByte + 1) : ~is_set(restored[2], b, 7)

C7_Witness ==
    /\ fsource = "stream"
    /\ restored = <<"Ok", <<129, 128>>, 2>>
    /\ is_set(restored[2], 0, 7)
    /\ ~is_set(restored[2], 1, 7)

(***************************************************************************)
(* The item scenario: the round-trip helpers of the test suite             *)
(* (tests/roundtrip/mod.rs) on the item types of a small schema.  One      *)
(* item type of each layout, and a layout that validation rejects.         *)
(***************************************************************************)
Item010 == Fixed(1, << Field("a", 2), Spare(1), EPB(Field("b", 2)),
                       Enum("e", 2, << <<"Psr", 1>>, <<"Ssr", 2>> >>) >>)
Item020 == Explicit(1, << Field("x", 3),
                          EPB(Enum("m", 2, << <<"A", 0>>, <<"B", 3>> >>)), Spare(2) >>)
Item030 == Extended(3, << PartGroup(0, << Field("p", 2), Spare(5) >>),
                          PartGroup(1, << Field("q", 1), Spare(6) >>),
                          PartGroup(2, << Field("r", 1), Spare(6) >>) >>)
Item040 == Repetitive(1, 2, << Field("t", 1), Spare(7) >>)
Item050 == Compound(<< SubItem(0, Fixed(1, << Field("u", 1), Spare(7) >>)),
                       SubItem(1, Extended(2, << PartGroup(0, << Field("g", 1), Spare(6) >>),
                                                 PartGroup(1, << Field("h", 1), Spare(6) >>) >>)),
                       SubItem(8, Fixed(1, << Field("w", 1), Spare(7) >>)) >>)
Item060 == Fixed(1, << Field("z", 3), Spare(4) >>)

\* The item types that code is generated for: to_ir validates each layout.
Layouts == {l \in {Item010, Item020, Item030, Item040, Item050, Item060} : validate(l)}

MaxReps      == 3
MaxItemBytes == 3
ItemStreamBytes == {0, 1, 2, 4, 64, 128, 129}

\* The values of an element's field that fit its declared bit width.
EnumValues(e) ==
    {Variant(e.values[i][1]) : i \in 1..Len(e.values)}
        \cup {Unknown(n) : n \in 0..(Pow2(e.bits) - 1)}
ContentValues(e) ==
    IF e.kind = "Enum" \/ (e.kind = "EPB" /\ e.content[1] = "Enum")
    THEN EnumValues(e) ELSE 0..(Pow2(e.bits) - 1)
ElementValues(e) ==
    IF e.kind = "EPB" THEN {None} \cup {Some(x) : x \in ContentValues(e)}
    ELSE ContentValues(e)

\* The values of the struct generated for a list of elements.
RECURSIVE StructValues(_)
StructValues(elements) ==
    IF elements = <<>> THEN {<<>>}
    ELSE LET e == Head(elements)
         IN  IF e.kind = "Spare" THEN StructValues(Tail(elements))
             ELSE {Bind(s, e.name, x) : s \in StructValues(Tail(elements)),
                                        x \in ElementValues(e)}

Options(S) == {None} \cup {Some(x) : x \in S}

\* <<part0, Option<part1>, ...>> for the part groups i..n
RECURSIVE PartValues(_, _)
PartValues(groups, i) ==
    IF i > Len(groups) THEN {<<>>}
    ELSE LET S == StructValues(groups[i].elements)
         IN  {<<x>> \o rest : x \in (IF i = 1 THEN S ELSE Options(S)),
                              rest \in PartValues(groups, i + 1)}

FlatValues(l) ==
    CASE l.kind \in {"Fixed", "Explicit"} -> StructValues(l.elements)
      [] l.kind = "Extended"   -> PartValues(l.part_groups, 1)
      [] l.kind = "Repetitive" ->
            {[items |-> q] : q \in SeqsUpTo(StructValues(l.elements), MaxReps)}

RECURSIVE SubValues(_, _)
SubValues(sub_items, i) ==
    IF i > Len(sub_items) THEN {<<>>}
    ELSE {<<x>> \o rest : x \in Options(FlatValues(sub_items[i].layout)),
                          rest \in SubValues(sub_items, i + 1)}

Values(l) == IF l.kind = "Compound" THEN SubValues(l.sub_items, 1) ELSE FlatValues(l)

\* A fresh Fspec, a fresh BitWriter and BitReader, no item encoded or decoded.
ItemInit ==
    /\ item = <<>>
    /\ original = None
    /\ buffer = <<>>
    /\ isource = "none"
    /\ decoded = <<"None">>
    /\ reencoded = <<"None">>
    /\ ops = <<>>
    /\ writer = BitWriterNew(<<>>)
    /\ flushed = FALSE
    /\ flushes = 0
    /\ reader = BitReaderNew(0)
    /\ reads = <<>>
    /\ extra = <<"None">>
    /\ fspec = FspecNew
    /\ positions = {}
    /\ fwire = <<>>
    /\ fsource = "none"
    /\ restored = <<"None">>
    /\ blk = None
    /\ bstream = <<>>
    /\ bsource = "none"
    /\ breader = BitReaderNew(0)
    /\ results = <<>>
    /\ en = <<>>
    /\ u8val = 0
    /\ converted = <<"None">>
    /\ back = <<"None">>
    /\ schema = <<>>
    /\ frns = <<>>
    /\ record = <<>>
    /\ ir = "none"
    /\ lowered = <<"None">>

\* original.encode(&mut writer) on a fresh BitWriter, then writer.flush()
EncodeToBuffer(l, v) == flush(item_encode(l, v, BitWriterNew(<<>>))).sink

ItemEncode(l, v) ==
    /\ isource = "none"
    /\ item' = l
    /\ original' = Some(v)
    /\ buffer' = EncodeToBuffer(l, v)
    /\ isource' = "encode"
    /\ UNCHANGED <<decoded, reencoded, notItem>>

\* The values of a Fixed or Explicit item in which one primitive field, or
\* one present EPB-wrapped primitive, holds an integer of its Rust type
\* that is beyond its declared bit width.
WideValues(l) ==
    IF l.kind \notin {"Fixed", "Explicit"} THEN {}
    ELSE UNION { { [v EXCEPT ![l.elements[k].name] =
                        IF l.elements[k].kind = "EPB"
                        THEN Some(Pow2(l.elements[k].bits) + x)
                        ELSE Pow2(l.elements[k].bits) + x]
                   : v \in StructValues(l.elements), x \in {0, 1} }
                 : k \in { k \in 1..Len(l.elements) :
                             \/ l.elements[k].kind = "Field"
                             \/ /\ l.elements[k].kind = "EPB"
                                /\ l.elements[k].content[1] = "Field" } }

\* The same encode, given a value of WideValues: it returns Ok(()).
ItemEncodeWide(l, v) ==
    /\ isource = "none"
    /\ item' = l
    /\ original' = Some(v)
    /\ buffer' = EncodeToBuffer(l, v)
    /\ isource' = "wide"
    /\ UNCHANGED <<decoded, reencoded, notItem>>

ItemFeed(l, b) ==
    /\ isource = "none"
    /\ item' = l
    /\ buffer' = b
    /\ isource' = "stream"
    /\ UNCHANGED <<original, decoded, reencoded, notItem>>

\* T::decode(&mut reader) on a fresh BitReader over the buffer
ItemDecode ==
    /\ isource # "none"
    /\ decoded = <<"None">>
    /\ LET d == item_decode(item, BitReaderNew(0), buffer)
       IN  decoded' = IF d.ok THEN <<"Ok", d.value, d.rd.pos, d.canon>> ELSE <<"Err">>
    /\ UNCHANGED <<item, original, buffer, isource, reencoded, notItem>>

\* value.encode(&mut writer) on a fresh BitWriter, then writer.flush()
ItemReencode ==
    /\ decoded[1] = "Ok"
    /\ reencoded = <<"None">>
    /\ reencoded' = <<"Ok", EncodeToBuffer(item, decoded[2])>>
    /\ UNCHANGED <<item, original, buffer, isource, decoded, notItem>>

ItemNext ==
    \/ \E l \in Layouts : \E v \in Values(l) : ItemEncode(l, v)
    \/ \E l \in Layouts : \E v \in WideValues(l) : ItemEncodeWide(l, v)
    \/ \E l \in Layouts, b \in SeqsUpTo(ItemStreamBytes, MaxItemBytes) : ItemFeed(l, b)
    \/ ItemDecode
    \/ ItemReencode

SpecItem == ItemInit /\ [][ItemNext]_vars

(***************************************************************************)
(* C1: for every item type of the validated schema and every value v of    *)
(* it whose fields fit their declared bit widths, encoding v with a fresh  *)
(* BitWriter, flushing, and decoding the bytes with a fresh BitReader      *)
(* returns a value equal to v.                                             *)
(***************************************************************************)
C1_StructRoundTrip ==
    (isource = "encode" /\ decoded # <<"None">>) =>
        /\ decoded[1] = "Ok"
        /\ Some(decoded[2]) = original

\* The value of the Extended item 030 with part1 absent and part2 present
\* has been encoded and decoded: the value returned lacks part2.
C1_ExtendedHole ==
    /\ isource = "encode"
    /\ item = Item030
    /\ original = Some(<< [p |-> 1], None, Some([r |-> 1]) >>)
    /\ buffer = <<64, 128>>
    /\ decoded = <<"Ok", << [p |-> 1], None, None >>, 1, TRUE>>

(***************************************************************************)
(* C2 (as amended): for every byte sequence b that the decode of an item   *)
(* type accepts, re-encoding the decoded value and flushing produces       *)
(* exactly b if and only if decode has consumed all of b and has discarded *)
(* nothing but zeros and the values that encode writes: zero spare bits,   *)
(* zero content bits under an EPB validity bit of 0, an Explicit length    *)
(* byte equal to the item's bytes plus one, FX = 0 after the last declared *)
(* Extended part, and a Compound FSPEC with presence bits of declared      *)
(* sub-items only and no empty last byte.                                  *)
(***************************************************************************)
C2_BytesRoundTrip ==
    (isource = "stream" /\ reencoded # <<"None">>) =>
        ((reencoded[2] = buffer) <=> (decoded[4] /\ decoded[3] = Len(buffer)))

\* C2 as stated: every accepted byte sequence is reproduced.
C2_Original ==
    (isource = "stream" /\ reencoded # <<"None">>) => reencoded[2] = buffer

\* Item 010 decoded from a byte with zero spare and an EPB validity bit of
\* 0 over zero content, and encoded again.
C2_Witness ==
    /\ isource = "stream"
    /\ item = Item010
    /\ buffer = <<129>>
    /\ decoded = <<"Ok", [a |-> 2, b |-> None, e |-> Variant("Psr")], 1, TRUE>>
    /\ reencoded = <<"Ok", <<129>>>>

(***************************************************************************)
(* The data-block scenarios.  SpecBlock: a DataBlock is encoded with a     *)
(* fresh BitWriter and flushed, and the bytes are decoded.  SpecFrame:     *)
(* bytes arrive on a stream and DataBlock::decode is called on it, one     *)
(* call after the other.                                                   *)
(***************************************************************************)
MaxRecords == 2
MaxDecodes == 2
MaxPayload == 2

\* The values of the record: any subset of its items present.
RecordValues == SubValues(CatRecord, 1)
EmptyRecord  == [i \in 1..Len(CatRecord) |-> None]

\* The DataBlock values that are encoded: the short lists of records, and
\* the lists of empty records whose serialization (one byte each) makes
\* the u16 arithmetic of LEN overflow.
BigBlocks   == {U16 - 3, U16}
BlockValues ==
    SeqsUpTo(RecordValues, MaxRecords)
        \cup {[i \in 1..n |-> EmptyRecord] : n \in BigBlocks}

\* The streams that are decoded: a header (this category or another one, a
\* LEN that may be too small, or disagree with what follows), some bytes,
\* then nothing or another data block.
FrameLens    == {0, 2, 3, 4, 5, 6}
PayloadBytes == {0, 1, 128}
Frames ==
    {<<c, 0, n>> \o q : c \in {CATEGORY, CATEGORY + 1}, n \in FrameLens,
                        q \in SeqsUpTo(PayloadBytes, MaxPayload)}
        \cup {<<>>, <<CATEGORY>>, <<CATEGORY, 0>>, <<CATEGORY + 1>>}
Tails == {<<>>, <<CATEGORY, 0, 3>>, <<CATEGORY, 0, 5, 128, 128>>,
          <<CATEGORY, 0, 6, 1, 128, 128>>}

\* No block encoded, no stream, a fresh BitReader.
BlockInit ==
    /\ blk = None
    /\ bstream = <<>>
    /\ bsource = "none"
    /\ breader = BitReaderNew(0)
    /\ results = <<>>
    /\ item = <<>>
    /\ original = None
    /\ buffer = <<>>
    /\ isource = "none"
    /\ decoded = <<"None">>
    /\ reencoded = <<"None">>
    /\ ops = <<>>
    /\ writer = BitWriterNew(<<>>)
    /\ flushed = FALSE
    /\ flushes = 0
    /\ reader = BitReaderNew(0)
    /\ reads = <<>>
    /\ extra = <<"None">>
    /\ fspec = FspecNew
    /\ positions = {}
    /\ fwire = <<>>
    /\ fsource = "none"
    /\ restored = <<"None">>
    /\ en = <<>>
    /\ u8val = 0
    /\ converted = <<"None">>
    /\ back = <<"None">>
    /\ schema = <<>>
    /\ frns = <<>>
    /\ record = <<>>
    /\ ir = "none"
    /\ lowered = <<"None">>

\* block.encode(&mut writer) on a fresh BitWriter, then writer.flush(), in
\* a build with or without overflow checks.
BlockEncode(v, overflow_checks) ==
    /\ bsource = "none"
    /\ LET Done(e) ==
               /\ bstream' = IF e.panic THEN <<>> ELSE flush(e.W).sink
               /\ bsource' = IF e.panic THEN "panic" ELSE "encode"
       IN  Done(block_encode(v, overflow_checks, BitWriterNew(<<>>)))
    /\ blk' = Some(v)
    /\ UNCHANGED <<breader, results, notBlock>>

BlockFeed(s) ==
    /\ bsource = "none"
    /\ bstream' = s
    /\ bsource' = "stream"
    /\ UNCHANGED <<blk, breader, results, notBlock>>

\* DataBlock::decode(&mut reader) on the reader over the stream
BlockDecode ==
    /\ bsource \in {"encode", "stream"}
    /\ Len(results) < MaxDecodes
    /\ LET Done(d) ==
               /\ breader' = d.rd
               /\ results' = Append(results,
                      [ok |-> d.ok, err |-> d.err, records |-> d.records,
                       from |-> breader.pos, to |-> d.rd.pos])
       IN  Done(block_decode(breader, bstream))
    /\ UNCHANGED <<blk, bstream, bsource, notBlock>>

BlockNext ==
    \/ \E v \in BlockValues, overflow_checks \in BOOLEAN : BlockEncode(v, overflow_checks)
    \/ BlockDecode

SpecBlock == BlockInit /\ [][BlockNext]_vars

FrameNext ==
    \/ \E f \in Frames, t \in Tails : BlockFeed(f \o t)
    \/ BlockDecode

SpecFrame == BlockInit /\ [][FrameNext]_vars

(***************************************************************************)
(* C3: for every DataBlock value, DataBlock::decode applied to the bytes   *)
(* of DataBlock::encode returns an equal DataBlock: the same number of     *)
(* records, in the same order, each with the same present items.           *)
(***************************************************************************)
C3_BlockRoundTrip ==
    (bsource = "encode" /\ Len(results) >= 1) =>
        /\ results[1].ok
        /\ Some(results[1].records) = blk

\* The block of 65536 records with no item present has been encoded and
\* decoded: decode succeeds and returns no record.
C3_RecordsLost ==
    /\ bsource = "encode"
    /\ Len(blk[1]) = U16
    /\ Len(results) >= 1
    /\ results[1] = [ok |-> TRUE, err |-> "", records |-> <<>>, from |-> 0, to |-> 3]

\* The bytes of each record, one record after the other.
RECURSIVE RecordBytes(_, _)
RecordBytes(records, i) ==
    IF i > Len(records) THEN <<>>
    ELSE flush(record_encode(CatRecord, records[i], BitWriterNew(<<>>))).sink
             \o RecordBytes(records, i + 1)

(***************************************************************************)
(* C8: DataBlock::encode writes one byte equal to the category id, a       *)
(* 2-byte big-endian LEN equal to 3 plus the number of bytes of the        *)
(* serialized records, then the serialized records in list order; a block  *)
(* of one record with no item present is [CAT, 0x00, 0x04, 0x00].          *)
(***************************************************************************)
C8_EncodedLayout ==
    (bsource = "encode") =>
        /\ Len(bstream) >= 3
        /\ bstream[1] = CATEGORY
        /\ bstream[2] * 256 + bstream[3] = 3 + (Len(bstream) - 3)
        /\ SubSeq(bstream, 4, Len(bstream)) = RecordBytes(blk[1], 1)
        /\ (blk = Some(<<EmptyRecord>>)) => (bstream = <<CATEGORY, 0, 4, 0>>)

\* The block of 65536 records with no item present has been encoded: 65536
\* payload bytes follow a LEN of 3.
C8_LenWrapped ==
    /\ bsource = "encode"
    /\ Len(blk[1]) = U16
    /\ Len(bstream) = 3 + U16
    /\ bstream[1] = CATEGORY /\ bstream[2] = 0 /\ bstream[3] = 3

\* The LEN field of the header at position p of the stream.
LenAt(p) == bstream[p + 2] * 256 + bstream[p + 3]

(***************************************************************************)
(* C9: DataBlock::decode returns InvalidData("category mismatch")          *)
(* whenever the first byte differs from the category id, having read that  *)
(* byte only, and InvalidData("data block length too small") whenever the  *)
(* category matches and LEN < 3; in both cases it returns no records.      *)
(***************************************************************************)
C9_HeaderErrors ==
    \A i \in 1..Len(results) :
        LET r == results[i]
            p == r.from
        IN  /\ (Len(bstream) > p /\ bstream[p + 1] # CATEGORY) =>
                   /\ ~r.ok /\ r.err = "category mismatch"
                   /\ r.records = <<>>
                   /\ r.to = p + 1
            /\ (Len(bstream) >= p + 3 /\ bstream[p + 1] = CATEGORY /\ LenAt(p) < 3) =>
                   /\ ~r.ok /\ r.err = "data block length too small"
                   /\ r.records = <<>>

C9_Witness ==
    /\ bsource = "stream"
    /\ bstream = <<CATEGORY, 0, 2, 0>>
    /\ Len(results) = 2
    /\ results[1] = [ok |-> FALSE, err |-> "data block length too small",
                     records |-> <<>>, from |-> 0, to |-> 3]
    /\ results[2] = [ok |-> FALSE, err |-> "category mismatch",
                     records |-> <<>>, from |-> 3, to |-> 4]

\* What decode returns for the stream s read from its start.
Alone(s) == block_decode(BitReaderNew(0), s)

(***************************************************************************)
(* C10 (as amended): DataBlock::decode consumes at most max(LEN, 3) bytes  *)
(* of the outer stream, whatever the payload contains: the three header    *)
(* bytes at most when LEN < 3, one byte when the category differs.  It     *)
(* consumes exactly LEN bytes when it succeeds, and also when it fails on  *)
(* a record of a block whose LEN >= 3 bytes are all on the stream; hence   *)
(* the next decode on the stream returns what a decode of the rest of the  *)
(* stream alone returns, even when a record of the first block is          *)
(* malformed or would read past the block's end.                           *)
(***************************************************************************)
C10_FramedByLen ==
    \A i \in 1..Len(results) :
        LET r == results[i]
            p == r.from
        IN  /\ r.ok => (Len(bstream) >= p + 3 /\ r.to - p = LenAt(p))
            /\ (Len(bstream) >= p + 3) =>
                   /\ r.to - p <= (IF LenAt(p) >= 3 THEN LenAt(p) ELSE 3)
                   /\ (bstream[p + 1] = CATEGORY /\ LenAt(p) >= 3
                          /\ Len(bstream) >= p + LenAt(p)) =>
                          /\ r.to - p = LenAt(p)
                          /\ (i < Len(results)) =>
                                 LET a == Alone(SubSeq(bstream, r.to + 1, Len(bstream)))
                                     n == results[i + 1]
                                 IN  /\ n.ok = a.ok /\ n.err = a.err
                                     /\ n.records = a.records
                                     /\ n.to - n.from = a.rd.pos

\* C10 as stated: never more than LEN bytes.
C10_Original ==
    \A i \in 1..Len(results) :
        LET r == results[i]
            p == r.from
        IN  /\ r.ok => (Len(bstream) >= p + 3 /\ r.to - p = LenAt(p))
            /\ (Len(bstream) >= p + 3) => (r.to - p <= LenAt(p))

\* A block whose record announces an item that lies beyond the block's end
\* (LEN = 4), followed by a block of one record: the first decode fails
\* after 4 bytes, the second returns the record of the second block.
C10_Witness ==
    /\ bsource = "stream"
    /\ bstream = <<CATEGORY, 0, 4, 128, CATEGORY, 0, 5, 128, 128>>
    /\ Len(results) = 2
    /\ results[1] = [ok |-> FALSE, err |-> "Io", records |-> <<>>, from |-> 0, to |-> 4]
    /\ results[2] = [ok |-> TRUE, err |-> "", from |-> 4, to |-> 9,
                     records |-> << <<Some([u |-> 1]), None>> >>]

(***************************************************************************)
(* C11: if the LEN - 3 payload bytes of a data block end in the middle of  *)
(* a record (in its FSPEC chain or in one of the items its FSPEC marks     *)
(* present), DataBlock::decode fails as a whole and returns no records,    *)
(* even when earlier records of the block decoded successfully.  The       *)
(* blocks concerned are those with this category, LEN >= 3 and all their   *)
(* LEN bytes on the stream; every item of CatRecord is a Fixed item.       *)
(***************************************************************************)
C11_NoPartialRecords ==
    LET RECURSIVE PresentBytes(_, _)
        PresentBytes(f, j) ==
            IF j > Len(CatRecord) THEN 0
            ELSE (IF is_set(f, frn_to_fspec_position(CatRecord[j].index)[1],
                               frn_to_fspec_position(CatRecord[j].index)[2])
                  THEN CatRecord[j].layout.bytes ELSE 0) + PresentBytes(f, j + 1)
        RECURSIVE EndsMidRecord(_, _)
        EndsMidRecord(payload, pos) ==
            IF pos >= Len(payload) THEN FALSE
            ELSE LET f == fspec_read(payload, pos)
                 IN  \/ ~f.ok
                     \/ f.pos + PresentBytes(f.bytes, 1) > Len(payload)
                     \/ EndsMidRecord(payload, f.pos + PresentBytes(f.bytes, 1))
        WholeBlockAt(p) ==
            /\ Len(bstream) >= p + 3
            /\ bstream[p + 1] = CATEGORY
            /\ LenAt(p) >= 3
            /\ Len(bstream) >= p + LenAt(p)
    IN  \A i \in 1..Len(results) :
            LET r == results[i]
                p == r.from
            IN  (WholeBlockAt(p) /\ EndsMidRecord(SubSeq(bstream, p + 4, p + LenAt(p)), 0)) =>
                    (~r.ok /\ r.records = <<>>)

\* A block of two records, the first with no item, the second announcing
\* an item that the payload does not hold.
C11_Witness ==
    /\ bsource = "stream"
    /\ bstream = <<CATEGORY, 0, 5, 0, 128>>
    /\ results = <<[ok |-> FALSE, err |-> "Io", records |-> <<>>, from |-> 0, to |-> 5]>>

(***************************************************************************)
(* C12: encoding an Extended item writes part 0's 7 bits followed by       *)
(* FX = part1.is_some(), then for each optional part i that is present     *)
(* its 7 bits followed by FX = (part i+1).is_some(), with FX = 0 after the *)
(* last declared part.  With two declared parts a value holding only part  *)
(* 0 encodes to one byte ending in FX = 0, and a value holding both to two *)
(* bytes with FX = 1 then FX = 0.  The expected bytes are computed from    *)
(* the value (parts made of fields and spare bits); the item is either the *)
(* Extended item itself or the only present sub-item of a Compound, which  *)
(* follows the one-byte FSPEC.                                             *)
(***************************************************************************)
C12_ExtendedEncode ==
    LET RECURSIVE PartBits(_, _, _)
        PartBits(elements, s, acc) ==
            IF elements = <<>> THEN acc
            ELSE PartBits(Tail(elements), s,
                          acc * Pow2(Head(elements).bits)
                            + (IF Head(elements).kind = "Field"
                               THEN s[Head(elements).name] ELSE 0))
        RECURSIVE Expected(_, _, _)
        Expected(groups, v, i) ==
            IF i > Len(groups) THEN <<>>
            ELSE (IF i = 1 \/ is_some(v[i])
                  THEN << 2 * PartBits(groups[i].elements,
                                       IF i = 1 THEN v[1] ELSE v[i][1], 0)
                          + (IF i < Len(groups) /\ is_some(v[i + 1]) THEN 1 ELSE 0) >>
                  ELSE <<>>) \o Expected(groups, v, i + 1)
        Encodes(groups, v, bytes) ==
            /\ bytes = Expected(groups, v, 1)
            /\ (Len(groups) = 2 /\ ~is_some(v[2])) =>
                    (Len(bytes) = 1 /\ bytes[1] % 2 = 0)
            /\ (Len(groups) = 2 /\ is_some(v[2])) =>
                    (Len(bytes) = 2 /\ bytes[1] % 2 = 1 /\ bytes[2] % 2 = 0)
    IN  isource = "encode" =>
            /\ item.kind = "Extended" => Encodes(item.part_groups, original[1], buffer)
            /\ item.kind = "Compound" =>
                 \A j \in 1..Len(item.sub_items) :
                    (/\ item.sub_items[j].layout.kind = "Extended"
                     /\ {k \in 1..Len(original[1]) : is_some(original[1][k])} = {j}) =>
                        Encodes(item.sub_items[j].layout.part_groups, original[1][j][1],
                                SubSeq(buffer, 2, Len(buffer)))

\* The two-part Extended sub-item with both parts: FSPEC, then g = 1 with
\* FX = 1, then h = 1 with FX = 0.
C12_Witness ==
    /\ isource = "encode"
    /\ item = Item050
    /\ original = Some(<<None, Some(<<Bind(<<>>, "g", 1), Some(Bind(<<>>, "h", 1))>>), None>>)
    /\ buffer = <<64, 129, 128>>

(***************************************************************************)
(* C13: decoding an Extended item always decodes part 0 and decodes part i *)
(* iff the FX bit read after part i-1 was 1.  The decoded parts form a     *)
(* prefix part0..partk, exactly k+1 bytes are consumed, each part is made  *)
(* of the 7 high bits of its byte, and decoding stops after the last       *)
(* declared part whatever its FX bit is.  Need(i) is the index of the last *)
(* byte the FX chain asks for; the decode fails iff the stream is shorter. *)
(***************************************************************************)
C13_ExtendedDecode ==
    LET groups == item.part_groups
        RECURSIVE Need(_)
        Need(i) == IF i > Len(buffer) \/ i = Len(groups) \/ buffer[i] % 2 = 0
                   THEN i ELSE Need(i + 1)
        RECURSIVE PartOf(_, _, _)
        PartOf(elements, byte, off) ==
            IF elements = <<>> THEN <<>>
            ELSE LET e == Head(elements)
                     rest == PartOf(Tail(elements), byte, off + e.bits)
                 IN  IF e.kind = "Field"
                     THEN Bind(rest, e.name, (byte \div Pow2(8 - off - e.bits)) % Pow2(e.bits))
                     ELSE rest
        Part(i) == PartOf(groups[i].elements, buffer[i], 0)
    IN  (item # <<>> /\ item.kind = "Extended" /\ decoded # <<"None">>) =>
            IF Need(1) > Len(buffer) THEN decoded = <<"Err">>
            ELSE /\ decoded[1] = "Ok"
                 /\ decoded[3] = Need(1)
                 /\ decoded[2] = [i \in 1..Len(groups) |->
                                    IF i = 1 THEN Part(1)
                                    ELSE IF i <= Need(1) THEN Some(Part(i)) ELSE None]

\* Part 0 with FX = 1, part 1 with FX = 0: two parts decoded, two bytes
\* consumed, the third byte of the stream left unread.
C13_Witness ==
    /\ isource = "stream"
    /\ item = Item030
    /\ buffer = <<129, 128, 1>>
    /\ decoded[1] = "Ok"
    /\ decoded[2] = <<Bind(<<>>, "p", 2), Some(Bind(<<>>, "q", 1)), None>>
    /\ decoded[3] = 2

(***************************************************************************)
(* Scenario SpecEnum: the conversions generated for an enum, applied to a  *)
(* u8: try_from, then u8::from on its result.                              *)
(***************************************************************************)
U8Max == 255

\* Enums that code is generated for: those of items 010 and 020, and one
\* whose variants are not declared in the order of their values.
GeneratedEnums ==
    { Item010.elements[4],
      Enum("m", 2, << <<"A", 0>>, <<"B", 3>> >>),
      Enum("k", 8, << <<"Hi", 200>>, <<"Lo", 0>>, <<"Mid", 7>> >>) }

EnumInit ==
    /\ en \in GeneratedEnums
    /\ u8val \in 0..U8Max
    /\ converted = <<"None">>
    /\ back = <<"None">>
    /\ ops = <<>>
    /\ writer = BitWriterNew(<<>>)
    /\ flushed = FALSE
    /\ flushes = 0
    /\ reader = BitReaderNew(0)
    /\ reads = <<>>
    /\ extra = <<"None">>
    /\ fspec = FspecNew
    /\ positions = {}
    /\ fwire = <<>>
    /\ fsource = "none"
    /\ restored = <<"None">>
    /\ item = <<>>
    /\ original = None
    /\ buffer = <<>>
    /\ isource = "none"
    /\ decoded = <<"None">>
    /\ reencoded = <<"None">>
    /\ blk = None
    /\ bstream = <<>>
    /\ bsource = "none"
    /\ breader = BitReaderNew(0)
    /\ results = <<>>
    /\ schema = <<>>
    /\ frns = <<>>
    /\ record = <<>>
    /\ ir = "none"
    /\ lowered = <<"None">>

\* Enum::try_from(u8val)
EnumTryFrom ==
    /\ converted = <<"None">>
    /\ converted' = <<"Ok", try_from(en, u8val)>>
    /\ UNCHANGED <<en, u8val, back, notEnum>>

\* u8::from(value)
EnumInto ==
    /\ converted[1] = "Ok"
    /\ back = <<"None">>
    /\ back' = <<"Ok", u8_from(en, converted[2])>>
    /\ UNCHANGED <<en, u8val, converted, notEnum>>

EnumNext == EnumTryFrom \/ EnumInto

SpecEnum == EnumInit /\ [][EnumNext]_vars

(***************************************************************************)
(* C14: for every generated enum and every 8-bit integer x, converting x   *)
(* to the enum succeeds and gives the named variant whose declared value   *)
(* is x, or Unknown(x) when no variant declares x; converting the result   *)
(* back to an integer gives x.                                             *)
(***************************************************************************)
C14_EnumRoundTrip ==
    /\ converted # <<"None">> =>
          /\ converted[1] = "Ok"
          /\ \A i \in 1..Len(en.values) :
                en.values[i][2] = u8val => converted[2] = Variant(en.values[i][1])
          /\ (\A i \in 1..Len(en.values) : en.values[i][2] # u8val) =>
                converted[2] = Unknown(u8val)
    /\ back # <<"None">> => back = <<"Ok", u8val>>

\* 200 is the declared value of Hi and then comes back; 201 is declared by
\* no variant, becomes Unknown(201) and comes back too.
C14_Witness ==
    /\ en.name = "k"
    /\ \/ u8val = 200 /\ converted = <<"Ok", Variant("Hi")>>
       \/ u8val = 201 /\ converted = <<"Ok", Unknown(201)>>
    /\ back = <<"Ok", u8val>>

(***************************************************************************)
(* The generator: to_ir (transform/transformer.rs) and lower               *)
(* (transform/lowerer.rs).  In the schemas given to the generator a name   *)
(* is the sequence of its characters, and an enum value is the integer     *)
(* that its text denotes.                                                  *)
(***************************************************************************)
\* to_snake_case (generate/utils.rs)
to_snake_case(name) ==
    LET IsUpper(c) == c \in {"A", "B"}
        IsLower(c) == c \in {"a", "b"}
        Lower(c)   == CASE c = "A" -> "a" [] c = "B" -> "b" [] OTHER -> c
        Dash(c)    == IF c = "-" THEN "_" ELSE c
        RECURSIVE Chars(_)
        Chars(i) ==
            IF i > Len(name) THEN <<>>
            ELSE (IF /\ i > 1
                     /\ IsUpper(name[i])
                     /\ \/ IsLower(name[i - 1])
                        \/ (i < Len(name) /\ IsLower(name[i + 1]))
                  THEN <<"_", Lower(name[i])>>
                  ELSE <<Dash(Lower(name[i]))>>) \o Chars(i + 1)
    IN  Chars(1)

\* The element lists that each become one generated struct: lower_layout
\* and lower_sub_item_kind call lower_fields once for each of them.
RECURSIVE StructsOf(_)
StructsOf(l) ==
    CASE l.kind \in {"Fixed", "Explicit", "Repetitive"} -> <<l.elements>>
      [] l.kind = "Extended" ->
            [i \in 1..Len(l.part_groups) |-> l.part_groups[i].elements]
      [] l.kind = "Compound" ->
            LET RECURSIVE Subs(_)
                Subs(i) == IF i > Len(l.sub_items) THEN <<>>
                           ELSE StructsOf(l.sub_items[i].layout) \o Subs(i + 1)
            IN  Subs(1)

\* to_ir_enum: v.value.parse::<u8>().expect(..) succeeds for every variant
to_ir_enum(e) == \A i \in 1..Len(e.values) : e.values[i][2] \in 0..U8Max

\* to_ir: the category is transformed (every enum value parsed), then every
\* item is validated; an assertion that fails is a panic.
to_ir(cat) ==
    IF /\ \A i \in 1..Len(cat) : \A j \in 1..Len(StructsOf(cat[i])) :
             \A k \in 1..Len(StructsOf(cat[i])[j]) :
                StructsOf(cat[i])[j][k].values # <<>> => to_ir_enum(StructsOf(cat[i])[j][k])
       /\ \A i \in 1..Len(cat) : validate(cat[i])
    THEN "Ok" ELSE "panic"

\* lower_fields: elements.iter().filter_map(lower_field), as the names of
\* the FieldDescriptors
RECURSIVE lower_fields(_)
lower_fields(elements) ==
    IF elements = <<>> THEN <<>>
    ELSE (IF Head(elements).kind = "Spare" THEN <<>>
          ELSE <<to_snake_case(Head(elements).name)>>) \o lower_fields(Tail(elements))

\* lower_record: one RecordEntry per item, in the order of the category,
\* at the FSPEC position of the item's FRN
lower_record(item_frns) ==
    [i \in 1..Len(item_frns) |->
        [fspec_byte |-> frn_to_fspec_position(item_frns[i])[1],
         fspec_bit  |-> frn_to_fspec_position(item_frns[i])[2]]]

\* lower: for each item the fields of each of its structs; a Compound
\* inside a Compound panics.
lower(cat) ==
    IF \E i \in 1..Len(cat) : \E j \in 1..Len(cat[i].sub_items) :
            cat[i].sub_items[j].layout.kind = "Compound"
    THEN <<"panic">>
    ELSE <<"Ok", [i \in 1..Len(cat) |->
                    [j \in 1..Len(StructsOf(cat[i])) |-> lower_fields(StructsOf(cat[i])[j])]]>>

(***************************************************************************)
(* Scenario SpecGen: a category is given to to_ir, and when to_ir returns  *)
(* the IR is lowered.                                                      *)
(***************************************************************************)
MaxItems == 2

\* The FRNs that the items of the category declare.
FrnChoices == {0, 7}

GenLayouts ==
    LET a    == <<"a">>
        b    == <<"b">>
        aB   == <<"a", "B">>
        a_b  == <<"a", "_", "b">>
        X1Y1 == << <<"X", 1>>, <<"Y", 1>> >>
        X1Y2 == << <<"X", 1>>, <<"Y", 2>> >>
    IN  { \* 3 + (1 + 2) + 2 bits in one byte
          Fixed(1, << Field(a, 3), EPB(Field(b, 2)), Spare(2) >>),
          \* 3 + (1 + 2) + 3 bits in one byte
          Fixed(1, << Field(a, 3), EPB(Field(b, 2)), Spare(3) >>),
          \* 8 bits in two bytes
          Explicit(2, << Field(a, 8) >>),
          Repetitive(1, 2, << Field(a, 1), Spare(6) >>),
          \* the same name in two part groups
          Extended(2, << PartGroup(0, << Field(a, 7) >>), PartGroup(1, << Field(a, 7) >>) >>),
          Extended(2, << PartGroup(0, << Field(a, 7) >>), PartGroup(1, << Field(b, 6) >>) >>),
          Extended(3, << PartGroup(0, << Field(a, 7) >>), PartGroup(1, << Field(b, 7) >>) >>),
          Compound(<< SubItem(0, Fixed(1, << Field(a, 8) >>)),
                      SubItem(1, Repetitive(1, 1, << Field(a, 8) >>)) >>),
          Compound(<< SubItem(0, Fixed(1, << Field(a, 8) >>)),
                      SubItem(1, Fixed(1, << Field(a, 7) >>)) >>),
          Compound(<< SubItem(0, Fixed(1, << Field(a, 4), Field(a, 4) >>)) >>),
          \* enums: distinct values that fit, a repeated value, a value
          \* beyond the 2 bits, a value that is not a u8
          Fixed(1, << Enum(a, 2, X1Y2), Spare(6) >>),
          Fixed(1, << Enum(a, 2, X1Y1), Spare(6) >>),
          Fixed(1, << EPB(Enum(a, 2, << <<"X", 5>> >>)), Spare(5) >>),
          Fixed(1, << Enum(a, 2, << <<"X", 300>> >>), Spare(6) >>),
          \* names that are equal, or equal once in snake case
          Fixed(1, << Field(a, 4), Enum(a, 4, X1Y2) >>),
          Fixed(1, << Field(aB, 4), EPB(Field(a_b, 3)) >>),
          Fixed(1, << Field(aB, 4), Field(a, 4) >>) }

GenInit ==
    /\ schema = <<>>
    /\ frns = <<>>
    /\ record = <<>>
    /\ ir = "none"
    /\ lowered = <<"None">>
    /\ ops = <<>>
    /\ writer = BitWriterNew(<<>>)
    /\ flushed = FALSE
    /\ flushes = 0
    /\ reader = BitReaderNew(0)
    /\ reads = <<>>
    /\ extra = <<"None">>
    /\ fspec = FspecNew
    /\ positions = {}
    /\ fwire = <<>>
    /\ fsource = "none"
    /\ restored = <<"None">>
    /\ item = <<>>
    /\ original = None
    /\ buffer = <<>>
    /\ isource = "none"
    /\ decoded = <<"None">>
    /\ reencoded = <<"None">>
    /\ blk = None
    /\ bstream = <<>>
    /\ bsource = "none"
    /\ breader = BitReaderNew(0)
    /\ results = <<>>
    /\ en = <<>>
    /\ u8val = 0
    /\ converted = <<"None">>
    /\ back = <<"None">>

\* The category read from the XML file.
GenLoad(cat, item_frns) ==
    /\ schema = <<>>
    /\ cat # <<>>
    /\ schema' = cat
    /\ frns' = item_frns
    /\ UNCHANGED <<ir, lowered, record, notGen>>

\* to_ir(category)
GenToIr ==
    /\ schema # <<>>
    /\ ir = "none"
    /\ ir' = to_ir(schema)
    /\ UNCHANGED <<schema, frns, lowered, record, notGen>>

\* lower(&ir)
GenLower ==
    /\ ir = "Ok"
    /\ lowered = <<"None">>
    /\ lowered' = lower(schema)
    /\ record' = IF lower(schema)[1] = "Ok" THEN lower_record(frns) ELSE <<>>
    /\ UNCHANGED <<schema, frns, ir, notGen>>

GenNext ==
    \/ \E cat \in SeqsUpTo(GenLayouts, MaxItems) :
          \E item_frns \in [1..Len(cat) -> FrnChoices] : GenLoad(cat, item_frns)
    \/ GenToIr
    \/ GenLower

SpecGen == GenInit /\ [][GenNext]_vars

(***************************************************************************)
(* C15: to_ir rejects every category that contains a Fixed, Explicit or    *)
(* Repetitive layout whose element bit widths (an EPB counting 1 + its     *)
(* wrapped width) do not sum to 8 x the declared bytes, or an Extended     *)
(* layout in which some part group does not sum to exactly 7 bits or the   *)
(* number of part groups differs from the declared bytes; the sub-items of *)
(* a Compound are checked in the same way.                                 *)
(***************************************************************************)
C15_BitCountsChecked ==
    LET Width(e) == IF e.kind = "EPB" THEN 1 + e.bits ELSE e.bits
        RECURSIVE Total(_)
        Total(elements) == IF elements = <<>> THEN 0
                           ELSE Width(Head(elements)) + Total(Tail(elements))
        RECURSIVE Mismatch(_)
        Mismatch(l) ==
            CASE l.kind \in {"Fixed", "Explicit", "Repetitive"} ->
                    Total(l.elements) # 8 * l.bytes
              [] l.kind = "Extended" ->
                    \/ Len(l.part_groups) # l.bytes
                    \/ \E g \in 1..Len(l.part_groups) : Total(l.part_groups[g].elements) # 7
              [] l.kind = "Compound" ->
                    \E j \in 1..Len(l.sub_items) : Mismatch(l.sub_items[j].layout)
    IN  (ir # "none" /\ \E i \in 1..Len(schema) : Mismatch(schema[i])) => ir = "panic"

\* A category whose first item is valid and whose second item is a
\* Compound with a sub-item of 7 bits in one byte.
C15_Witness ==
    /\ Len(schema) = 2
    /\ validate(schema[1])
    /\ schema[2].kind = "Compound"
    /\ Len(schema[2].sub_items) = 2
    /\ validate_flat(schema[2].sub_items[1].layout)
    /\ ~validate_flat(schema[2].sub_items[2].layout)
    /\ ir = "panic"

(***************************************************************************)
(* C16: before lowering, the generator rejects every schema containing an  *)
(* enum in which two variants have the same value, or whose largest        *)
(* variant value does not fit in the declared bit width of the enum: to_ir *)
(* panics on it, so that it is never lowered.                              *)
(***************************************************************************)
C16_EnumsChecked ==
    LET BadEnum(e) ==
            /\ e.values # <<>>
            /\ \/ \E i, j \in 1..Len(e.values) : i # j /\ e.values[i][2] = e.values[j][2]
               \/ \E i \in 1..Len(e.values) : e.values[i][2] >= Pow2(e.bits)
        Bad(l) == \E j \in 1..Len(StructsOf(l)) : \E k \in 1..Len(StructsOf(l)[j]) :
                      BadEnum(StructsOf(l)[j][k])
    IN  (ir # "none" /\ \E i \in 1..Len(schema) : Bad(schema[i])) =>
            (ir = "panic" /\ lowered = <<"None">>)

\* The category of one item whose enum declares X = 1 and Y = 1 in 2 bits:
\* to_ir returns and the category is lowered.
C16_Accepted ==
    /\ Len(schema) = 1
    /\ Len(schema[1].elements) = 2
    /\ schema[1].elements[1].kind = "Enum"
    /\ schema[1].elements[1].values = << <<"X", 1>>, <<"Y", 1>> >>
    /\ ir = "Ok"
    /\ lowered[1] = "Ok"

(***************************************************************************)
(* C17: lowering rejects every schema in which two visible elements        *)
(* (field, enum or EPB content) of the same generated struct (one simple   *)
(* item, one part group, one repetition element, one sub-item) produce the *)
(* same generated field name, including names that differ in the schema    *)
(* and are equal once converted to snake case.                             *)
(***************************************************************************)
C17_DuplicatesRejected ==
    LET Clash(elements) ==
            \E i, j \in 1..Len(elements) :
                /\ i # j
                /\ elements[i].kind # "Spare"
                /\ elements[j].kind # "Spare"
                /\ to_snake_case(elements[i].name) = to_snake_case(elements[j].name)
    IN  (/\ lowered # <<"None">>
         /\ \E i \in 1..Len(schema) : \E j \in 1..Len(StructsOf(schema[i])) :
                Clash(StructsOf(schema[i])[j])) =>
            lowered = <<"panic">>

\* The item with the field aB and the EPB field a_b: lower returns one
\* struct with two fields named a_b.
C17_Accepted ==
    /\ Len(schema) = 1
    /\ Len(schema[1].elements) = 2
    /\ schema[1].elements[1].name = <<"a", "B">>
    /\ schema[1].elements[2].name = <<"a", "_", "b">>
    /\ ir = "Ok"
    /\ lowered = <<"Ok", << << << <<"a", "_", "b">>, <<"a", "_", "b">> >> >> >> >>

(***************************************************************************)
(* C18: encoding an item in which a field (or the content of a present     *)
(* EPB) holds an integer that does not fit in the declared bit width of    *)
(* the element returns InvalidData instead of writing bytes.               *)
(***************************************************************************)
C18_OverflowRejected ==
    LET Fits(e, x) ==
            CASE e.kind = "Field" -> x < Pow2(e.bits)
              [] e.kind = "EPB" /\ e.content[1] = "Field" ->
                    (is_some(x) => x[1] < Pow2(e.bits))
              [] OTHER -> TRUE
    IN  (/\ original # None
         /\ item.kind \in {"Fixed", "Explicit"}
         /\ \E k \in 1..Len(item.elements) :
               /\ item.elements[k].kind # "Spare"
               /\ ~Fits(item.elements[k], original[1][item.elements[k].name])) =>
            (isource = "InvalidData" /\ buffer = <<>>)

\* Item 010 with a = 5 in its 2-bit field: encode returns Ok(()) and
\* writes the byte that a = 1 gives.
C18_Truncated ==
    /\ item = Item010
    /\ original = Some(Bind(Bind(Bind(<<>>, "a", 5), "b", None), "e", Variant("Psr")))
    /\ isource = "wide"
    /\ buffer = <<65>>
    /\ buffer = EncodeToBuffer(Item010, [original[1] EXCEPT !["a"] = 1])

(***************************************************************************)
(* C19: for a Repetitive item with the fixed count N and repetitions of B  *)
(* bytes, encode writes exactly N repetitions (N x B bytes) and decode     *)
(* reads exactly N repetitions and returns the same N values, for every    *)
(* value of the container struct.                                          *)
(***************************************************************************)
C19_FixedCount ==
    (isource = "encode" /\ item.kind = "Repetitive") =>
        /\ Len(buffer) = item.count * item.bytes
        /\ decoded # <<"None">> =>
              /\ decoded[1] = "Ok"
              /\ decoded[3] = item.count * item.bytes
              /\ Len(decoded[2].items) = item.count
              /\ Some(decoded[2]) = original

\* The container of item 040 (count 2) holding one repetition: encode
\* writes one byte and decode fails on it.
C19_WrongCount ==
    /\ isource = "encode"
    /\ item = Item040
    /\ original = Some([items |-> <<Bind(<<>>, "t", 1)>>])
    /\ buffer = <<128>>
    /\ decoded = <<"Err">>

(***************************************************************************)
(* C20: after any sequence of write_bits(v_i, n_i) calls on a fresh        *)
(* BitWriter followed by flush, the sink holds exactly ceil(sum n_i / 8)   *)
(* bytes, the unused low bits of a final partial byte are zero and the     *)
(* accumulator is empty; a further flush with no write in between emits no *)
(* byte (the same holds after each later flush).                           *)
(***************************************************************************)
C20_FlushedSink ==
    LET RECURSIVE Total(_)
        Total(i) == IF i = 0 THEN 0 ELSE ops[i][2] + Total(i - 1)
        bits == Total(Len(ops))
    IN  flushed =>
            /\ Len(writer.sink) = (bits + 7) \div 8
            /\ (bits % 8) # 0 => writer.sink[Len(writer.sink)] % Pow2(8 - (bits % 8)) = 0
            /\ writer.bits_filled = 0
            /\ writer.buffer = 0

\* 3 bits then 8 bits, all ones, flushed twice: two bytes, the second with
\* five padding bits.
C20_Witness ==
    /\ flushes = 2
    /\ ops = << <<0..63, 3>>, <<0..63, 8>> >>
    /\ writer.sink = <<255, 224>>

(***************************************************************************)
(* C21: Fspec::read consumes from the stream exactly the bytes up to and   *)
(* including the first byte whose least significant bit (FX) is 0, and no  *)
(* byte after it, and returns those bytes as the FSPEC; if the stream ends *)
(* before a byte with FX = 0 is read it fails (an Io error, the only error *)
(* of read).                                                               *)
(***************************************************************************)
C21_ReadStopsAtFx ==
    LET Ends == {k \in 1..Len(fwire) : fwire[k] % 2 = 0}
        first == CHOOSE k \in Ends : \A j \in Ends : k <= j
    IN  restored # <<"None">> =>
            IF Ends = {} THEN restored = <<"Err">>
            ELSE restored = <<"Ok", SubSeq(fwire, 1, first), first>>

\* Two bytes of FSPEC followed by a byte that is left on the stream, and a
\* stream whose every byte has FX = 1.
C21_Witness ==
    /\ fsource = "stream"
    /\ \/ fwire = <<129, 2, 1>> /\ restored = <<"Ok", <<129, 2>>, 2>>
       \/ fwire = <<129, 1>> /\ restored = <<"Err">>

(***************************************************************************)
(* C22: BitReader never reads ahead: after successful read_bits calls that *)
(* consumed k bits in total, exactly ceil(k / 8) bytes have been taken     *)
(* from the underlying source, and read_bits(n) fails (an Io error, its    *)
(* only error) exactly when it needs a bit beyond the last byte of the     *)
(* source.                                                                 *)
(***************************************************************************)
C22_NoReadAhead ==
    LET RECURSIVE Total(_)
        Total(i) == IF i = 0 THEN 0 ELSE ops[i][2] + Total(i - 1)
        k == Total(Len(reads))
    IN  /\ \A i \in 1..Len(reads) : reads[i][1] = "Ok"
        /\ extra = <<"None">> => reader.pos = (k + 7) \div 8
        /\ extra # <<"None">> =>
              /\ extra[2] = "Err" <=> k + extra[1] > 8 * Len(writer.sink)
              /\ extra[2] = "Ok" => reader.pos = (k + extra[1] + 7) \div 8

\* Eight bits read from a source of two bytes: one byte taken.  And three
\* bits read from a source of one byte, then eight more asked for.
C22_Witness ==
    \/ /\ Len(ops) = 2 /\ ops[1][2] = 8 /\ ops[2][2] = 3
       /\ Len(reads) = 1 /\ reader.pos = 1 /\ Len(writer.sink) = 2
    \/ /\ Len(ops) = 1 /\ ops[1][2] = 3 /\ Len(reads) = 1
       /\ extra = <<8, "Err">>

C24_EpbWidth ==
    LET Width(e) == IF e.kind = "EPB" THEN 1 + e.bits ELSE e.bits
        RECURSIVE Offset(_, _)
        Offset(els, k) == IF k = 1 THEN 0 ELSE Offset(els, k - 1) + Width(els[k - 1])
        Lead == IF item.kind = "Explicit" THEN 8 ELSE 0
        Total == Lead + 8 * item.bytes
        RECURSIVE Num(_, _)
        Num(b, n) == IF n = 0 THEN 0 ELSE 256 * Num(b, n - 1) + b[n]
        Bits(off, w) == (Num(buffer, Total \div 8) \div Pow2(Total - off - w)) % Pow2(w)
        At(k) == Lead + Offset(item.elements, k)
        Raw(e, o) == IF e.content[1] = "Enum" THEN u8_from(e, o[1]) ELSE o[1]
        Conv(e, is_enum, x) == IF is_enum THEN try_from(e, x) ELSE x
        Simple == isource # "none" /\ item.kind \in {"Fixed", "Explicit"}
    IN  /\ (Simple /\ isource \in {"encode", "wide"}) =>
                /\ Len(buffer) = Total \div 8
                /\ \A k \in 1..Len(item.elements) :
                        LET e == item.elements[k]
                            o == original[1][e.name]
                        IN  e.kind = "EPB" =>
                                /\ Bits(At(k), 1) = IF is_some(o) THEN 1 ELSE 0
                                /\ Bits(At(k) + 1, e.bits) =
                                       IF is_some(o) THEN Raw(e, o) % Pow2(e.bits) ELSE 0
        /\ (Simple /\ decoded # <<"None">>) =>
                /\ decoded[1] = "Ok" <=> Len(buffer) >= Total \div 8
                /\ decoded[1] = "Ok" =>
                     /\ decoded[3] = Total \div 8
                     /\ \A k \in 1..Len(item.elements) :
                          LET e == item.elements[k]
                          IN  CASE e.kind = "EPB" ->
                                     decoded[2][e.name] =
                                         IF Bits(At(k), 1) = 1
                                         THEN Some(Conv(e, e.content[1] = "Enum",
                                                        Bits(At(k) + 1, e.bits)))
                                         ELSE None
                                [] e.kind = "Spare" -> TRUE
                                [] OTHER ->
                                     decoded[2][e.name] =
                                         Conv(e, e.kind = "Enum", Bits(At(k), e.bits))

\* An absent EPB was encoded as 000 and decoded as None, and the enum after
\* it was decoded from its own two bits.
C24_Witness ==
    /\ item = Item010
    /\ isource = "encode"
    /\ original = Some([a |-> 1, b |-> None, e |-> Variant("Ssr")])
    /\ buffer = <<66>>
    /\ decoded = <<"Ok", [a |-> 1, b |-> None, e |-> Variant("Ssr")], 1, TRUE>>

C26_RecordLoopAdvances ==
    \A i \in 1..Len(results) :
        LET r == results[i]
            P == LenAt(r.from) - 3
            payload == SubSeq(bstream, r.from + 4, r.from + 3 + P)
        IN  r.ok =>
                /\ Len(r.records) <= P
                /\ r.to = r.from + 3 + P
                /\ \A pos \in 0..(P - 1) :
                        LET d == record_decode(CatRecord, BitReaderNew(pos), payload)
                        IN  d.ok => (d.rd.pos > pos /\ d.rd.pos <= P)

\* A payload of two bytes, each a record with no item: two iterations.
C26_Witness ==
    /\ bsource = "stream"
    /\ bstream = <<CATEGORY, 0, 5, 0, 0>>
    /\ Len(results) = 1
    /\ results[1].ok
    /\ results[1].records = <<EmptyRecord, EmptyRecord>>
    /\ results[1].to = 5

(***************************************************************************)
(* C27: the 16-bit LEN that DataBlock::encode writes equals 3 plus the     *)
(* number of payload bytes it writes, and when the serialized records      *)
(* exceed 65532 bytes (every record is at least one byte, so a block of    *)
(* more than 65532 records does) encode emits no block with a wrapped LEN. *)
(***************************************************************************)
C27_LenChecked ==
    /\ bsource = "encode" =>
            /\ Len(bstream) >= 3
            /\ LenAt(0) = 3 + (Len(bstream) - 3)
    /\ (blk # None /\ Len(blk[1]) > U16 - 4) => bsource # "encode"

\* The block of 65533 records with no item present, encoded by a build
\* without overflow checks: LEN = 0 in front of 65533 payload bytes.
C27_LenZero ==
    /\ bsource = "encode"
    /\ Len(blk[1]) = U16 - 3
    /\ Len(bstream) = U16
    /\ bstream[1] = CATEGORY /\ bstream[2] = 0 /\ bstream[3] = 0

(***************************************************************************)
(* C28: for every value of a generated Extended struct, the values with    *)
(* an absent part followed by a present part included, the encoded bytes   *)
(* form a well-formed FX chain (FX = 1 in every byte except the last,      *)
(* FX = 0 in the last) and hold exactly the parts that decode returns:     *)
(* decode consumes all of them and gives back the value.                   *)
(***************************************************************************)
C28_ExtendedChain ==
    (isource = "encode" /\ item.kind = "Extended") =>
        /\ FxChain(buffer)
        /\ decoded # <<"None">> =>
                /\ decoded[1] = "Ok"
                /\ decoded[2] = original[1]
                /\ decoded[3] = Len(buffer)

\* Item 030 with part 1 absent and part 2 present: the first of the two
\* bytes written has FX = 0, and decode stops after it.
C28_BrokenChain ==
    /\ isource = "encode"
    /\ item = Item030
    /\ original = Some(<< [p |-> 0], None, Some([r |-> 1]) >>)
    /\ buffer = <<0, 128>>
    /\ ~FxChain(buffer)
    /\ decoded = <<"Ok", << [p |-> 0], None, None >>, 1, TRUE>>

(***************************************************************************)
(* C29: for every value e of a generated enum of width b, Unknown(v)       *)
(* included, decoding the b bits that encode writes returns e: an enum     *)
(* field, bare or under an EPB, of an encoded Fixed or Explicit item is    *)
(* decoded to the value it had.                                            *)
(***************************************************************************)
C29_EnumFieldRoundTrip ==
    (isource = "encode" /\ item.kind \in {"Fixed", "Explicit"} /\ decoded # <<"None">>) =>
        /\ decoded[1] = "Ok"
        /\ \A k \in 1..Len(item.elements) :
                LET e == item.elements[k]
                IN  (e.kind = "Enum" \/ (e.kind = "EPB" /\ e.content[1] = "Enum")) =>
                        decoded[2][e.name] = original[1][e.name]

\* Item 010 with e = Unknown(1), where 1 is the declared value of Psr: the
\* two bits 01 are written and decoded as Psr.
C29_UnknownBecomesVariant ==
    /\ isource = "encode"
    /\ item = Item010
    /\ original = Some([a |-> 0, b |-> None, e |-> Unknown(1)])
    /\ buffer = <<1>>
    /\ decoded = <<"Ok", [a |-> 0, b |-> None, e |-> Variant("Psr")], 1, TRUE>>

(***************************************************************************)
(* C30: in every lowered record the entries have pairwise distinct FSPEC   *)
(* positions: a category in which two items declare the same FRN is        *)
(* rejected (by to_ir or by lower) before code is emitted.                 *)
(***************************************************************************)
C30_DistinctPositions ==
    lowered[1] = "Ok" =>
        \A i \in 1..Len(record), j \in 1..Len(record) : i # j => record[i] # record[j]

\* A category of two valid items that both declare FRN 0 has gone through
\* to_ir and lower: both entries of the record are at byte 0, bit 0.
C30_SharedPosition ==
    /\ Len(schema) = 2
    /\ frns = <<0, 0>>
    /\ ir = "Ok"
    /\ lowered[1] = "Ok"
    /\ record = << [fspec_byte |-> 0, fspec_bit |-> 0], [fspec_byte |-> 0, fspec_bit |-> 0] >>

====
